---- MODULE Spec2Model ----
(***************************************************************************)
(* SNSLock (package lambdautils): a deduplication lock over a DynamoDB     *)
(* table.  Several callers, each with its own SNSLock instance, run        *)
(* Available / AvailableById against one shared table and one shared       *)
(* clock.  A call reads the clock twice while it builds its PutItemInput   *)
(* (expires(), then current()), and then submits that one input up to 12   *)
(* times.  The table evaluates the condition expression and applies the    *)
(* put atomically.                                                         *)
(***************************************************************************)
EXTENDS Integers, Sequences, FiniteSets, TLC

VARIABLES now, table, lock, pc, frame, result, hist, wins, ncalls, built, hashed,
          router, adds, routed, unwrapped

vars == <<now, table, lock, pc, frame, result, hist, wins, ncalls, built, hashed,
          router, adds, routed, unwrapped>>

\* the variables of package lambdautils (SNSLock, its table, clock and calls)
lockVars == <<now, table, lock, pc, frame, result, hist, wins, ncalls, built, hashed>>

\* the variables of packages proxy and s3eventutils
otherVars == <<router, adds, routed, unwrapped>>

(* ------------------------------ bounds -------------------------------- *)

\* first epoch second of the modelled clock
T0 == 8

\* the clock advances at most this many seconds
MaxTime == 2

\* calls the one caller of SpecSolo makes, one after the other
SoloCalls == 1

\* calls started in one behaviour without transport faults
QuietCalls == 3

\* seconds the clock advances in a behaviour without transport faults
QuietTime == 3

\* calls of Available started in one behaviour of SpecEvent
EventCalls == 2

\* transport faults one call meets when callers run concurrently
MaxFaults == 2

\* largest TTL (seconds) given to a constructor
MaxTTL == 2

\* largest RetryWait (milliseconds) given to a constructor in SpecRetry
MaxRetryWait == 1

\* the most routes and build errors a router is given
MaxRoutes == 2

\* the most records of an SNS event handed to package s3eventutils
MaxSNSRecords == 2

Callers == {"a", "b"}

Messages == {"hello", "world"}

\* the MessageID SNS gives a delivery
MessageIds == {"id-1", "id-2"}

(* ------------------------------ strings ------------------------------- *)

Digits == <<"0", "1", "2", "3", "4", "5", "6", "7", "8", "9">>

RECURSIVE FormatInt(_)
\* strconv.FormatInt(t, 10) for t >= 0: the decimal digits, most significant first
FormatInt(t) ==
    IF t < 10 THEN <<Digits[t + 1]>>
    ELSE Append(FormatInt(t \div 10), Digits[(t % 10) + 1])

DigitValue(d) == CHOOSE v \in 0..9 : Digits[v + 1] = d

RECURSIVE NumberValue(_)
\* the number a DynamoDB N attribute holds, from its decimal string
NumberValue(s) ==
    IF Len(s) = 1 THEN DigitValue(s[1])
    ELSE 10 * NumberValue(SubSeq(s, 1, Len(s) - 1)) + DigitValue(s[Len(s)])

\* strings.Contains(errString, sub), on an error text kept as its parts
Contains(errString, sub) == \E i \in 1..Len(errString) : errString[i] = sub

(* ------------------------------- errors ------------------------------- *)

ErrCodeConditionalCheckFailedException == "ConditionalCheckFailedException"

\* a nil error
Nil == [code |-> "", text |-> <<>>, at |-> 0]

\* awserr.New(ErrCodeConditionalCheckFailedException, ...): what PutItem
\* returns when the condition expression is false
ConditionalCheckFailed(n) ==
    [code |-> ErrCodeConditionalCheckFailedException,
     text |-> <<"ConditionalCheckFailedException", "The conditional request failed">>,
     at |-> n]

\* a request error of the transport: the peer reset the connection
ConnectionReset(n) ==
    [code |-> "RequestError",
     text |-> <<"RequestError", "send request failed", "connection reset by peer">>,
     at |-> n]

\* any other failure of the store (the tests' errors.New("test fail"))
OtherFailure(n) == [code |-> "", text |-> <<"test fail">>, at |-> n]

\* no error for an event of the wrong size
CardinalityErrorNil(n) == Nil

\* fmt.Errorf("expected only 1 SNS event, received: %v", n)
CardinalityError(n) ==
    [code |-> "", text |-> <<"expected only 1 SNS event, received:", Digits[n + 1]>>, at |-> 0]

\* session.NewSession failed
SessionFailure == [code |-> "", text |-> <<"session failed">>, at |-> 0]

\* errors.Wrap / errors.Wrapf: a new error holding the cause
Wrap(err, message) ==
    [code |-> "", text |-> message \o err.text, at |-> err.at, cause |-> err]

(* ------------------------------ the lock ------------------------------ *)

\* NewSNSLock giving the defaults to every ttl and retry that is not positive
NewSNSLockPositive(region, tbl, ttl, retry) ==
    [Region |-> region,
     Table |-> tbl,
     TTL |-> IF ttl <= 0 THEN 300 ELSE ttl,
     RetryWait |-> IF retry <= 0 THEN 500 ELSE retry]

\* NewSNSLock(region, table, ttl, retry): zero ttl and zero retry take defaults
NewSNSLock(region, tbl, ttl, retry) ==
    [Region |-> region,
     Table |-> tbl,
     TTL |-> IF ttl = 0 THEN 300 ELSE ttl,
     RetryWait |-> IF retry = 0 THEN 500 ELSE retry]

\* the keys of a configuration document (the json tags of SNSLock)
Keys == {"region", "table", "ttl", "retry-wait"}

\* the integers given for ttl and retry: negative, zero and positive
ConfigInts == (-1)..MaxTTL

\* the strings handed to NewSNSLockFromJson: text json.Unmarshal accepts or
\* not, and for text it accepts the keys it holds with their values
Docs ==
    [wellFormed : BOOLEAN, present : SUBSET Keys,
     region : {"", "r1"}, table : {"", "t1"},
     ttl : ConfigInts, retry : ConfigInts]

\* the SNSLock new(SNSLock) gives: every field at its zero value
ZeroLock == [Region |-> "", Table |-> "", TTL |-> 0, RetryWait |-> 0]

\* json.Unmarshal([]byte(s), lock) on a well-formed document: a key that is
\* present sets its field, an absent one leaves the zero value
Unmarshal(s) ==
    [Region |-> IF "region" \in s.present THEN s.region ELSE ZeroLock.Region,
     Table |-> IF "table" \in s.present THEN s.table ELSE ZeroLock.Table,
     TTL |-> IF "ttl" \in s.present THEN s.ttl ELSE ZeroLock.TTL,
     RetryWait |-> IF "retry-wait" \in s.present THEN s.retry ELSE ZeroLock.RetryWait]

UnmarshalError == [code |-> "", text |-> <<"invalid character">>, at |-> 0]

RegionRequired == [code |-> "", text |-> <<"region is required">>, at |-> 0]

TableRequired == [code |-> "", text |-> <<"table is required">>, at |-> 0]

\* NewSNSLockFromJson without its test of the table
NewSNSLockFromJsonAnyTable(s) ==
    IF ~s.wellFormed
    THEN [made |-> FALSE, lock |-> ZeroLock, err |-> UnmarshalError]
    ELSE LET l == Unmarshal(s) IN
         IF l.Region = ""
         THEN [made |-> FALSE, lock |-> ZeroLock, err |-> RegionRequired]
         ELSE [made |-> TRUE,
               lock |-> [l EXCEPT !.TTL = IF @ = 0 THEN 300 ELSE @,
                                  !.RetryWait = IF @ = 0 THEN 500 ELSE @],
               err |-> Nil]

\* NewSNSLockFromJson(s): the lock (made tells a lock from nil) and the error
NewSNSLockFromJson(s) ==
    IF ~s.wellFormed
    THEN [made |-> FALSE, lock |-> ZeroLock, err |-> UnmarshalError]
    ELSE LET l == Unmarshal(s) IN
         IF l.Region = ""
         THEN [made |-> FALSE, lock |-> ZeroLock, err |-> RegionRequired]
         ELSE IF l.Table = ""
              THEN [made |-> FALSE, lock |-> ZeroLock, err |-> TableRequired]
              ELSE [made |-> TRUE,
                    lock |-> [l EXCEPT !.TTL = IF @ = 0 THEN 300 ELSE @,
                                       !.RetryWait = IF @ = 0 THEN 500 ELSE @],
                    err |-> Nil]

\* sha256 of the message, in hex: distinct messages have distinct sums
Sha256Hex(message) ==
    CASE message = "hello" -> "2cf24dba5fb0a30e"
      [] message = "world" -> "486ea46224d1bb4f"

\* a fingerprint taken from the delivery, not from the message
messageHashOfDelivery(l, snsEvent) ==
    IF snsEvent[1].SNS.MessageID = "id-1" THEN Sha256Hex("hello") ELSE Sha256Hex("world")

\* lock.messageHash(snsEvent): the hash of the first record's message
messageHash(l, snsEvent) == Sha256Hex(snsEvent[1].SNS.Message)

\* the fingerprint function TestSNSLock_messageHash_s3 hands to SetHashFunc:
\* it parses the message as an S3 event and fails on a message that is not
\* JSON, as every message of Messages is
S3HashFunc(message) ==
    [hash |-> "",
     err |-> [code |-> "",
              text |-> <<"failed to unmarshal S3 event", "invalid character">>,
              at |-> 0]]

\* expires() without the TTL: the clock reading alone
expiresNoTTL(l, t) == FormatInt(t)

\* lock.expires(): clock reading + TTL seconds, as a decimal string
expires(l, t) == FormatInt(t + l.TTL)

\* current() written after expires(): the TTL added here as well
currentWithTTL(l, t) == FormatInt(t + l.TTL)

\* lock.current(): clock reading, as a decimal string
current(l, t) == FormatInt(t)

\* lock.putItemInput(id), from its two clock readings: tExpires is the
\* reading expires() took, tCurrent the later one current() took
putItemInput(l, id, tExpires, tCurrent) ==
    [Item |-> [id |-> id, expire |-> expires(l, tExpires)],
     TableName |-> l.Table,
     ConditionExpression |-> "attribute_not_exists(id) OR :cur > expire",
     cur |-> current(l, tCurrent)]

(* ------------------------------ the store ----------------------------- *)

\* no item under a key
NoItem == [id |-> "", expire |-> <<>>]

\* the condition without its expiry clause: "attribute_not_exists(id)"
ConditionHoldsNoExpiry(item, input) == item = NoItem

\* the condition with a comparison that is not strict: ":cur >= expire"
ConditionHoldsAtExpiry(item, input) ==
    \/ item = NoItem
    \/ NumberValue(input.cur) >= NumberValue(item.expire)

\* DynamoDB's evaluation of "attribute_not_exists(id) OR :cur > expire"
\* against the item now stored under the key (N attributes compare as numbers)
ConditionHolds(item, input) ==
    \/ item = NoItem
    \/ NumberValue(input.cur) > NumberValue(item.expire)

\* what a submitted PutItem can meet:
\*   "answered"   the store evaluates the request and its answer arrives
\*   "reset"      the connection is reset before the request is evaluated
\*   "resetAfter" the store evaluates (and applies) the request, the
\*                connection is reset before the answer arrives
\*   "failure"    any other failure, nothing evaluated
Outcomes == {"answered", "reset", "resetAfter", "failure"}

Evaluated(outcome) == outcome \in {"answered", "resetAfter"}

\* the table after the store met the request
TableAfter(tbl, input, outcome) ==
    LET item == tbl[input.TableName][input.Item.id] IN
    IF Evaluated(outcome) /\ ConditionHolds(item, input)
    THEN [tbl EXCEPT ![input.TableName][input.Item.id] = input.Item]
    ELSE tbl

\* the error svc.PutItem returns to the caller on its n-th attempt
PutItemError(tbl, input, outcome, n) ==
    LET item == tbl[input.TableName][input.Item.id] IN
    CASE outcome = "answered" ->
            IF ConditionHolds(item, input) THEN Nil ELSE ConditionalCheckFailed(n)
      [] outcome \in {"reset", "resetAfter"} -> ConnectionReset(n)
      [] outcome = "failure" -> OtherFailure(n)

(* --------------------------- AvailableById ---------------------------- *)

\* the loop bound of AvailableById: attempts <= 12
MaxAttempts == 12

\* the retry test of the loop
IsConnectionReset(err) == Contains(err.text, "connection reset by peer")

\* a loop that retries after any error
RetriesAnyError(err, n) == err # Nil /\ n + 1 <= MaxAttempts

\* a loop bound off by one: attempts <= 13
RetriesOnceMore(err, n) == err # Nil /\ IsConnectionReset(err) /\ n <= MaxAttempts

\* whether the loop runs another attempt after the n-th one returned err
Retries(err, n) == err # Nil /\ IsConnectionReset(err) /\ n + 1 <= MaxAttempts

\* whether the loop slept after an attempt that returned err
Sleeps(err) == err # Nil /\ IsConnectionReset(err)

\* a sleep of RetryWait milliseconds
SleepMsRetryWait(l) == l.RetryWait

\* time.Duration(lock.TTL) * time.Millisecond
SleepMs(l) == l.TTL

\* the returns without the ConditionalCheckFailedException case
ClassifyConditionAsError(err, id, l) ==
    IF err = Nil THEN [ok |-> TRUE, err |-> Nil]
    ELSE [ok |-> FALSE, err |-> Wrap(err, <<"failed put", id, l.Table>>)]

\* the returns taking every error but a plain failure for a duplicate
ClassifyResetAsDuplicate(err, id, l) ==
    IF err = Nil THEN [ok |-> TRUE, err |-> Nil]
    ELSE IF err.code # ""
         THEN [ok |-> FALSE, err |-> Nil]
         ELSE [ok |-> FALSE, err |-> Wrap(err, <<"failed put", id, l.Table>>)]

\* the returns with the test for a nil error the wrong way round
ClassifyRefusedAsTrue(err, id, l) ==
    IF err = Nil \/ err.code = ErrCodeConditionalCheckFailedException
    THEN [ok |-> TRUE, err |-> Nil]
    ELSE [ok |-> FALSE, err |-> Wrap(err, <<"failed put", id, l.Table>>)]

\* the return statements after the loop
Classify(err, id, l) ==
    IF err = Nil THEN [ok |-> TRUE, err |-> Nil]
    ELSE IF err.code = ErrCodeConditionalCheckFailedException
         THEN [ok |-> FALSE, err |-> Nil]
         ELSE [ok |-> FALSE, err |-> Wrap(err, <<"failed put", id, l.Table>>)]

(* --------------------------- package proxy ----------------------------- *)

\* HttpMethod: the enum, in the order of its iota
GET == 0

HEAD == 1

POST == 2

PUT == 3

DELETE == 4

CONNECT == 5

OPTIONS == 6

TRACE == 7

PATCH == 8

HttpMethods == {GET, HEAD, POST, PUT, DELETE, CONNECT, OPTIONS, TRACE, PATCH}

\* HttpMethod.String(): the name of the constant
MethodString(m) ==
    <<"GET", "HEAD", "POST", "PUT", "DELETE", "CONNECT", "OPTIONS", "TRACE", "PATCH">>[m + 1]

\* the patterns handed to NewRoute; "/(" is not a regular expression
Patterns == {"/a", "/(?P<id>[0-9]+)", "/.*", "/("}

\* the paths of requests
Paths == {"/a", "/a/", "/7", "/b"}

\* regexp.Compile("^" + pattern + "/?$") succeeds
Compiles(pattern) == pattern # "/("

\* Regexp.FindStringSubmatch(path) for the regexp "^" + pattern + "/?$": the
\* whole match and the captures, or nothing when the path does not match
FindStringSubmatch(pattern, path) ==
    CASE pattern = "/a" -> IF path \in {"/a", "/a/"} THEN <<path>> ELSE <<>>
      [] pattern = "/(?P<id>[0-9]+)" ->
            IF path \in {"/7", "/7/"} THEN <<path, "7">> ELSE <<>>
      [] pattern = "/.*" -> <<path>>
      [] pattern = "/a|/b" ->
            \* "^/a|/b/?$" is "^/a" or "/b/?$": the leftmost match is returned
            IF path \in {"/a", "/a/", "/a//", "/ab"} THEN <<"/a">>
            ELSE IF path = "/b" THEN <<"/b">>
            ELSE <<>>
      [] OTHER -> <<>>

\* Regexp.SubexpNames(): the name of each group, "" for the whole match
SubexpNames(pattern) ==
    IF pattern = "/(?P<id>[0-9]+)" THEN <<"", "id">> ELSE <<"">>

\* the route handlers of a program
RouteHandlers == {"h1", "h2"}

\* no route, as NewRoute returns with an error
NoRoute == [Method |-> GET, Regex |-> "", Handler |-> ""]

\* NewRoute(method, pattern, handler): the route and the error
NewRoute(method, pattern, handler) ==
    IF ~Compiles(pattern)
    THEN [route |-> NoRoute,
          err |-> [code |-> "",
                   text |-> <<"failed compiling regex pattern", pattern,
                              "error parsing regexp">>,
                   at |-> 0]]
    ELSE [route |-> [Method |-> method, Regex |-> pattern, Handler |-> handler],
          err |-> Nil]

\* route.IsMatch(request): whether the route matches, and the match groups
IsMatch(route, request) ==
    IF MethodString(route.Method) # request.Method
    THEN [matched |-> FALSE, groups |-> <<>>]
    ELSE LET groups == FindStringSubmatch(route.Regex, request.RawPath) IN
         IF Len(groups) = 0
         THEN [matched |-> FALSE, groups |-> <<>>]
         ELSE [matched |-> TRUE, groups |-> groups]

\* a Go map[string]string with no key
EmptyMap == [k \in {} |-> ""]

\* for k, v := range src { params[k] = v }
Overlay(params, src) ==
    [k \in DOMAIN params \cup DOMAIN src |->
        IF k \in DOMAIN src THEN src[k] ELSE params[k]]

\* params[k] = v
MapSet(params, k, v) == Overlay(params, [x \in {k} |-> v])

\* route.extractParamsFromPath(params, request)
extractParamsFromPath(params, request) == Overlay(params, request.PathParameters)

\* extractParamsFromQueryString leaving alone the names params already holds
extractParamsFromQueryStringKeeping(params, request) ==
    Overlay(request.QueryStringParameters, params)

\* route.extractParamsFromQueryString(params, request)
extractParamsFromQueryString(params, request) ==
    Overlay(params, request.QueryStringParameters)

RECURSIVE NamedGroups(_, _, _, _)
\* the loop of extractParamsFromURIRegex from index i (Go counts from 0) on:
\* groups[i] is read only for i # 0 with a name, and reading past the end of
\* groups panics
NamedGroups(names, groups, i, acc) ==
    IF i >= Len(names) THEN acc
    ELSE IF i # 0 /\ names[i + 1] # ""
         THEN IF i >= Len(groups)
              THEN [acc EXCEPT !.panic = TRUE]
              ELSE IF groups[i + 1] # ""
                   THEN NamedGroups(names, groups, i + 1,
                           [acc EXCEPT !.params = MapSet(@, names[i + 1], groups[i + 1])])
                   ELSE NamedGroups(names, groups, i + 1, acc)
         ELSE NamedGroups(names, groups, i + 1, acc)

\* route.extractParamsFromURIRegex(params, groups): the params, or a panic
extractParamsFromURIRegex(route, params, groups) ==
    NamedGroups(SubexpNames(route.Regex), groups, 0, [params |-> params, panic |-> FALSE])

\* the bodies of requests
Bodies == {"", "id=1", "id=a+b", "id=1&x", "id=%Z", "aWQ9MQ==", "***"}

\* base64.StdEncoding.DecodeString(body): "aWQ9MQ==" encodes "id=1"
Base64Decode(body) ==
    CASE body = "aWQ9MQ==" -> [ok |-> TRUE, s |-> "id=1"]
      [] body = "" -> [ok |-> TRUE, s |-> ""]
      [] OTHER -> [ok |-> FALSE, s |-> ""]

\* strings.Split(body, "&")
SplitAmp(body) == IF body = "id=1&x" THEN <<"id=1", "x">> ELSE <<body>>

\* strings.Split(kv, "=")
SplitEq(kv) ==
    CASE kv = "id=1" -> <<"id", "1">>
      [] kv = "id=a+b" -> <<"id", "a+b">>
      [] kv = "id=%Z" -> <<"id", "%Z">>
      [] kv = "aWQ9MQ==" -> <<"aWQ9MQ", "", "">>
      [] OTHER -> <<kv>>

\* url.QueryUnescape(v): "+" is a space, "%Z" is no escape
QueryUnescape(v) ==
    CASE v = "%Z" -> [ok |-> FALSE, s |-> ""]
      [] v = "a+b" -> [ok |-> TRUE, s |-> "a b"]
      [] OTHER -> [ok |-> TRUE, s |-> v]

RECURSIVE FormPairs(_, _, _)
\* the loop over kvs of extractParamsFromFormPost, from the i-th pair on
FormPairs(kvs, i, params) ==
    IF i > Len(kvs) THEN [params |-> params, err |-> Nil]
    ELSE LET kvSplit == SplitEq(kvs[i]) IN
         IF Len(kvSplit) # 2
         THEN [params |-> params,
               err |-> [code |-> "", text |-> <<"invalid key/value pair in form post">>,
                        at |-> 0]]
         ELSE LET v == QueryUnescape(kvSplit[2]) IN
              IF ~v.ok
              THEN [params |-> params,
                    err |-> [code |-> "",
                             text |-> <<"unable to decode value", kvSplit[2],
                                        "invalid URL escape">>,
                             at |-> 0]]
              ELSE FormPairs(kvs, i + 1, MapSet(params, kvSplit[1], v.s))

\* extractParamsFromFormPost reading the form of a request of any method
extractParamsFromFormPostAnyMethod(params, request) ==
    IF request.ContentType # "application/x-www-form-urlencoded"
    THEN [params |-> params, err |-> Nil]
    ELSE IF request.IsBase64Encoded /\ ~Base64Decode(request.Body).ok
         THEN [params |-> params,
               err |-> [code |-> "", text |-> <<"unable to decode request form params">>,
                        at |-> 0]]
         ELSE FormPairs(SplitAmp(IF request.IsBase64Encoded
                                 THEN Base64Decode(request.Body).s
                                 ELSE request.Body),
                        1, params)

\* route.extractParamsFromFormPost(params, request): the params and the error
extractParamsFromFormPost(params, request) ==
    IF MethodString(POST) # request.Method THEN [params |-> params, err |-> Nil]
    ELSE IF request.ContentType # "application/x-www-form-urlencoded"
         THEN [params |-> params, err |-> Nil]
         ELSE IF request.IsBase64Encoded /\ ~Base64Decode(request.Body).ok
              THEN [params |-> params,
                    err |-> [code |-> "",
                             text |-> <<"unable to decode request form params",
                                        "illegal base64 data">>,
                             at |-> 0]]
              ELSE FormPairs(SplitAmp(IF request.IsBase64Encoded
                                      THEN Base64Decode(request.Body).s
                                      ELSE request.Body),
                             1, params)

\* events.APIGatewayProxyResponse{}
EmptyResponse == [StatusCode |-> 0, Body |-> ""]

\* the zero events.APIGatewayV2HTTPRequest
NoRequest ==
    [Method |-> "", RawPath |-> "", PathParameters |-> EmptyMap,
     QueryStringParameters |-> EmptyMap, ContentType |-> "", Body |-> "",
     IsBase64Encoded |-> FALSE]

\* a nil *RouteContext
NoContext == [Request |-> NoRequest, Params |-> EmptyMap]

\* a route handler called with rctx: "h1" answers 200 and no error, "h2"
\* answers 500 together with an error
RunHandler(handler, rctx) ==
    IF handler = "h1"
    THEN [response |-> [StatusCode |-> 200, Body |-> "h1"], err |-> Nil]
    ELSE [response |-> [StatusCode |-> 500, Body |-> "h2"],
          err |-> [code |-> "", text |-> <<"failed">>, at |-> 0]]

\* the catch all handlers: "" is nil
CatchAllHandlers == {"", "notFound", "notFoundFailing"}

\* a catch all handler called with request
RunCatchAll(handler, request) ==
    IF handler = "notFound"
    THEN [response |-> [StatusCode |-> 404, Body |-> "not found"], err |-> Nil]
    ELSE [response |-> [StatusCode |-> 404, Body |-> "not found"],
          err |-> [code |-> "", text |-> <<"catch all failed">>, at |-> 0]]

\* the error handlers: "" is nil
ErrorHandlers == {"", "errorHandler", "errorHandlerFailing"}

\* an error handler called with request and err: it answers 500 with the
\* outermost message of err, and "errorHandlerFailing" hands err back as well
RunCatchError(handler, request, err) ==
    IF handler = "errorHandler"
    THEN [response |-> [StatusCode |-> 500, Body |-> err.text[1]], err |-> Nil]
    ELSE [response |-> [StatusCode |-> 500, Body |-> err.text[1]], err |-> err]

\* route.Context(ctx, request, groups): the context and the error, or a panic
Context(route, request, groups) ==
    IF Len(groups) = 0
    THEN [rctx |-> NoContext,
          err |-> [code |-> "",
                   text |-> <<"No matches available, unabled to generate context for route",
                              MethodString(route.Method), route.Regex>>,
                   at |-> 0],
          panic |-> FALSE]
    ELSE LET fromPath == extractParamsFromPath(EmptyMap, request)
             fromQuery == extractParamsFromQueryString(fromPath, request)
             fromRegex == extractParamsFromURIRegex(route, fromQuery, groups)
             fromForm == extractParamsFromFormPost(fromRegex.params, request)
         IN  IF fromRegex.panic
             THEN [rctx |-> NoContext, err |-> Nil, panic |-> TRUE]
             ELSE IF fromForm.err # Nil
                  THEN [rctx |-> NoContext,
                        err |-> Wrap(fromForm.err, <<"failed extractParamsFromFormPost">>),
                        panic |-> FALSE]
                  ELSE [rctx |-> [Request |-> request, Params |-> fromForm.params],
                        err |-> Nil,
                        panic |-> FALSE]

\* route.Follow(ctx, request, groups): the response and the error, the handlers
\* that were executed (ran: the handler, its route and the params it was given),
\* or a panic
Follow(route, request, groups) ==
    LET c == Context(route, request, groups) IN
    IF c.panic
    THEN [response |-> EmptyResponse, err |-> Nil, ran |-> <<>>, panic |-> TRUE]
    ELSE IF c.err # Nil
         THEN [response |-> EmptyResponse,
               err |-> Wrap(c.err, <<"failed getting context for route", route.Regex>>),
               ran |-> <<>>,
               panic |-> FALSE]
         ELSE LET h == RunHandler(route.Handler, c.rctx) IN
              [response |-> h.response,
               err |-> h.err,
               ran |-> <<[handler |-> route.Handler, route |-> route,
                          params |-> c.rctx.Params]>>,
               panic |-> FALSE]

\* &Router{}
NoRouter == [Routes |-> <<>>, CatchAll |-> "", CatchError |-> "", errors |-> <<>>]

\* router.Valid()
Valid(r) == Len(r.errors) = 0

\* AddRoute putting the route in front of the routes added before
AddRouteFront(r, route) == [r EXCEPT !.Routes = <<route>> \o @]

\* router.AddRoute(route)
AddRoute(r, route) == [r EXCEPT !.Routes = Append(@, route)]

\* router.AddBuildError(err)
AddBuildError(r, err) == [r EXCEPT !.errors = Append(@, err)]

\* AddRouteIfNoError keeping the route of a call that brought an error as well
AddRouteIfNoErrorBoth(r, built1) ==
    IF built1.err # Nil
    THEN AddRoute(AddBuildError(r, built1.err), built1.route)
    ELSE AddRoute(r, built1.route)

\* router.AddRouteIfNoError(route, err)
AddRouteIfNoError(r, built1) ==
    IF built1.err # Nil THEN AddBuildError(r, built1.err) ELSE AddRoute(r, built1.route)

\* routeInternal answering not found without asking the CatchAll handler
routeFromNoCatchAll(r, request, i) ==
    LET matching == {j \in i..Len(r.Routes) : IsMatch(r.Routes[j], request).matched} IN
    IF matching = {}
    THEN [response |-> EmptyResponse,
          err |-> [code |-> "",
                   text |-> <<request.Method, request.RawPath, "not found">>,
                   at |-> 0],
          ran |-> <<>>,
          panic |-> FALSE]
    ELSE LET first == CHOOSE j \in matching : \A k \in matching : j <= k IN
         Follow(r.Routes[first], request, IsMatch(r.Routes[first], request).groups)

RECURSIVE routeFrom(_, _, _)
\* the loop of routeInternal from the i-th route on, and what follows it
routeFrom(r, request, i) ==
    IF i > Len(r.Routes)
    THEN IF r.CatchAll # ""
         THEN LET h == RunCatchAll(r.CatchAll, request) IN
              [response |-> h.response,
               err |-> h.err,
               ran |-> <<[handler |-> r.CatchAll, route |-> NoRoute, params |-> EmptyMap]>>,
               panic |-> FALSE]
         ELSE [response |-> EmptyResponse,
               err |-> [code |-> "",
                        text |-> <<request.Method, request.RawPath, "not found">>,
                        at |-> 0],
               ran |-> <<>>,
               panic |-> FALSE]
    ELSE LET m == IsMatch(r.Routes[i], request) IN
         IF ~m.matched
         THEN routeFrom(r, request, i + 1)
         ELSE Follow(r.Routes[i], request, m.groups)

RECURSIVE Reverse(_)
\* a list back to front
Reverse(q) == IF q = <<>> THEN <<>> ELSE Append(Reverse(Tail(q)), Head(q))

\* routeInternal trying the routes from the last added to the first
routeInternalReversed(r, request) ==
    routeFrom([r EXCEPT !.Routes = Reverse(@)], request, 1)

\* router.routeInternal(ctx, request)
routeInternal(r, request) == routeFrom(r, request, 1)

\* Route returning no response beside an error when no CatchError handler is set
RouteDroppingResponse(r, request) ==
    LET routed1 == routeInternal(r, request) IN
    IF routed1.err # Nil /\ r.CatchError = ""
    THEN [routed1 EXCEPT !.response = EmptyResponse]
    ELSE IF routed1.err # Nil
         THEN LET h == RunCatchError(r.CatchError, request, routed1.err) IN
              [response |-> h.response,
               err |-> h.err,
               ran |-> Append(routed1.ran,
                              [handler |-> r.CatchError, route |-> NoRoute,
                               params |-> EmptyMap]),
               panic |-> FALSE]
         ELSE routed1

\* Route handing to the CatchError handler the errors of route handlers only
RouteCatchingHandlerErrors(r, request) ==
    LET routed1 == routeInternal(r, request) IN
    IF /\ r.CatchError # "" /\ routed1.err # Nil
       /\ \E i \in 1..Len(routed1.ran) : routed1.ran[i].handler \in RouteHandlers
    THEN LET h == RunCatchError(r.CatchError, request, routed1.err) IN
         [response |-> h.response,
          err |-> h.err,
          ran |-> Append(routed1.ran,
                         [handler |-> r.CatchError, route |-> NoRoute,
                          params |-> EmptyMap]),
          panic |-> FALSE]
    ELSE routed1

\* router.Route(ctx, request)
Route(r, request) ==
    IF r.CatchError = ""
    THEN routeInternal(r, request)
    ELSE LET routed1 == routeInternal(r, request) IN
         IF routed1.panic THEN routed1
         ELSE IF routed1.err # Nil
              THEN LET h == RunCatchError(r.CatchError, request, routed1.err) IN
                   [response |-> h.response,
                    err |-> h.err,
                    ran |-> Append(routed1.ran,
                                   [handler |-> r.CatchError, route |-> NoRoute,
                                    params |-> EmptyMap]),
                    panic |-> FALSE]
              ELSE [response |-> routed1.response,
                    err |-> Nil,
                    ran |-> routed1.ran,
                    panic |-> FALSE]

\* BuildErrors wrapping from the last build error recorded to the first
BuildErrorsOldestOutermost(r) ==
    LET RECURSIVE wrapAll(_, _)
        wrapAll(topError, errs) ==
            IF errs = <<>> THEN topError
            ELSE wrapAll(Wrap(topError, Head(errs).text), Tail(errs))
    IN wrapAll([code |-> "", text |-> <<"failed building router">>, at |-> 0],
               Reverse(r.errors))

\* router.BuildErrors(): errors.New, then one errors.Wrap for each build
\* error in the order recorded, its Error() text the message of the wrap
BuildErrors(r) ==
    LET RECURSIVE wrapAll(_, _)
        wrapAll(topError, errs) ==
            IF errs = <<>> THEN topError
            ELSE wrapAll(Wrap(topError, Head(errs).text), Tail(errs))
    IN wrapAll([code |-> "", text |-> <<"failed building router">>, at |-> 0],
               r.errors)

(* ------------------------- package s3eventutils ------------------------ *)

\* an events.S3EventRecord of bucket and key
S3Record(bucket, key) == [S3 |-> [Bucket |-> [Name |-> bucket], Object |-> [Key |-> key]]]

\* a nil *events.S3EventRecord
NoRecord == S3Record("", "")

\* the messages of SNS records: S3 events of no, one (A or B) and two records,
\* and messages that are no S3 event
S3Messages == {"not json", "{\"Records\":5}", "{}", "[]", "[A]", "[B]",
               "[A,A]", "[A,B]", "[B,A]", "[B,B]"}

\* json.Unmarshal([]byte(message), s3Event): the event, or an error
UnmarshalS3Event(message) ==
    LET A == S3Record("bktname", "some/file/in/s3.txt")
        B == S3Record("bktname", "some/dir/")
    IN  CASE message = "{}" -> [ok |-> TRUE, Records |-> <<>>]
          [] message = "[]" -> [ok |-> TRUE, Records |-> <<>>]
          [] message = "[A]" -> [ok |-> TRUE, Records |-> <<A>>]
          [] message = "[B]" -> [ok |-> TRUE, Records |-> <<B>>]
          [] message = "[A,A]" -> [ok |-> TRUE, Records |-> <<A, A>>]
          [] message = "[A,B]" -> [ok |-> TRUE, Records |-> <<A, B>>]
          [] message = "[B,A]" -> [ok |-> TRUE, Records |-> <<B, A>>]
          [] message = "[B,B]" -> [ok |-> TRUE, Records |-> <<B, B>>]
          [] OTHER -> [ok |-> FALSE, Records |-> <<>>]

\* S3EventRecordFromSNSWrapper taking the first record of an S3 event of several
S3EventRecordFromSNSWrapperFirst(snsEvent) ==
    IF Len(snsEvent) # 1 \/ ~UnmarshalS3Event(snsEvent[1].SNS.Message).ok
       \/ Len(UnmarshalS3Event(snsEvent[1].SNS.Message).Records) = 0
    THEN [record |-> NoRecord, err |-> [code |-> "", text |-> <<"no record">>, at |-> 0]]
    ELSE [record |-> UnmarshalS3Event(snsEvent[1].SNS.Message).Records[1], err |-> Nil]

\* S3EventRecordFromSNSWrapper(snsEvent): the record and the error
S3EventRecordFromSNSWrapper(snsEvent) ==
    IF Len(snsEvent) # 1
    THEN [record |-> NoRecord,
          err |-> [code |-> "",
                   text |-> <<"expected only 1 SNS event, received:",
                              Digits[Len(snsEvent) + 1]>>,
                   at |-> 0]]
    ELSE LET s3Event == UnmarshalS3Event(snsEvent[1].SNS.Message) IN
         IF ~s3Event.ok
         THEN [record |-> NoRecord,
               err |-> Wrap([code |-> "", text |-> <<"invalid character">>, at |-> 0],
                            <<"failed to unmarshal">>)]
         ELSE IF Len(s3Event.Records) # 1
              THEN [record |-> NoRecord,
                    err |-> [code |-> "",
                             text |-> <<"expect only 1 S3 event, received:",
                                        Digits[Len(s3Event.Records) + 1]>>,
                             at |-> 0]]
              ELSE [record |-> s3Event.Records[1], err |-> Nil]

(* ------------------------------- state -------------------------------- *)

TableNames == {"t1"}

\* events.SNSEventRecord: the message and the id SNS gives the delivery
Records == [SNS : [Message : Messages, MessageID : MessageIds]]

\* the SNS events handed to Available: zero, one or two records
Events == {<<>>} \cup {<<r>> : r \in Records} \cup {<<r, q>> : r, q \in Records}

Ids == {Sha256Hex(m) : m \in Messages}

NoInput == putItemInput(NewSNSLock("", "", 0, 0), "", 0, 0)

\* the locals of a call before it has set them
NoFrame == [id |-> "", tExpires |-> 0, input |-> NoInput, attempts |-> 0, err |-> Nil]

\* what is recorded about a caller's latest call
NoHist ==
    [no |-> 0, records |-> 0, session |-> FALSE, tCurrent |-> 0,
     writes |-> 0, sleeps |-> 0, slept |-> 0, faults |-> 0,
     answered |-> FALSE, seen |-> NoItem, applied |-> FALSE, acked |-> FALSE,
     overlaps |-> {}, responses |-> <<>>]

\* no router call counted: calls of AddRouteIfNoError and of the methods named
\* after the HTTP methods, direct calls of AddRoute and AddBuildError, and the
\* calls among all of them that handed the router an error
NoAdds == [calls |-> 0, direct |-> 0, failed |-> 0]

\* no call of Route, Follow, Context, IsMatch or BuildErrors made
NoRouted ==
    [op |-> "", route |-> NoRoute, request |-> NoRequest, groups |-> <<>>,
     rctx |-> NoContext, response |-> EmptyResponse, err |-> Nil, ran |-> <<>>,
     panic |-> FALSE, matched |-> FALSE]

\* no call of S3EventRecordFromSNSWrapper made
NoUnwrapped == [called |-> FALSE, snsEvent |-> <<>>, record |-> NoRecord, err |-> Nil]

\* no constructor has been called by the program under watch
NoBuilt ==
    [by |-> "", in |-> [wellFormed |-> TRUE, present |-> {}, region |-> "",
                        table |-> "", ttl |-> 0, retry |-> 0],
     made |-> FALSE, lock |-> ZeroLock, err |-> Nil]

Init ==
    /\ now = T0
    /\ table = [t \in TableNames |-> [i \in Ids |-> NoItem]]
    /\ \E ttl \in 1..MaxTTL : lock = [c \in Callers |-> NewSNSLock("r1", "t1", ttl, 0)]
    /\ pc = [c \in Callers |-> "idle"]
    /\ frame = [c \in Callers |-> NoFrame]
    /\ result = [c \in Callers |-> [ok |-> FALSE, err |-> Nil]]
    /\ hist = [c \in Callers |-> NoHist]
    /\ wins = <<>>
    /\ ncalls = 0
    /\ built = NoBuilt
    /\ hashed = <<>>
    /\ router = NoRouter
    /\ adds = NoAdds
    /\ routed = NoRouted
    /\ unwrapped = NoUnwrapped

\* the calls of the other callers that are under way
UnderWay(c) == {hist[d].no : d \in {e \in Callers \ {c} : pc[e] # "idle"}}

\* AvailableById going on to putItemInput whether or not the session was made
EnterIgnoringSessionError(c, id, sessionOk) ==
    /\ ncalls' = ncalls + 1
    /\ hist' = [hist EXCEPT ![c] =
                  [NoHist EXCEPT !.no = ncalls + 1,
                                 !.records = 1,
                                 !.session = sessionOk,
                                 !.faults = IF sessionOk THEN 0 ELSE 1,
                                 !.overlaps = UnderWay(c)]]
    /\ frame' = [frame EXCEPT ![c] = [NoFrame EXCEPT !.id = id, !.tExpires = now]]
    /\ pc' = [pc EXCEPT ![c] = "current"]
    /\ UNCHANGED <<now, table, lock, wins, result, built, hashed, otherVars>>

\* AvailableById up to the first clock reading: the session, the client,
\* and, in putItemInput, the reading expires() takes
Enter(c, id, sessionOk) ==
    /\ ncalls' = ncalls + 1
    /\ hist' = [hist EXCEPT ![c] =
                  [NoHist EXCEPT !.no = ncalls + 1,
                                 !.records = 1,
                                 !.session = sessionOk,
                                 !.faults = IF sessionOk THEN 0 ELSE 1,
                                 !.overlaps = UnderWay(c)]]
    /\ IF sessionOk
       THEN /\ frame' = [frame EXCEPT ![c] = [NoFrame EXCEPT !.id = id, !.tExpires = now]]
            /\ pc' = [pc EXCEPT ![c] = "current"]
            /\ UNCHANGED result
       ELSE /\ frame' = [frame EXCEPT ![c] = [NoFrame EXCEPT !.id = id]]
            /\ result' = [result EXCEPT ![c] =
                            [ok |-> FALSE,
                             err |-> Wrap(SessionFailure, <<"failed getting session">>)]]
            /\ UNCHANGED pc
    /\ UNCHANGED <<now, table, lock, wins, built, hashed, otherVars>>

\* a caller calls lock.AvailableById(id)
AvailableById(c) ==
    /\ pc[c] = "idle"
    /\ \E id \in Ids, sessionOk \in BOOLEAN : Enter(c, id, sessionOk)

\* lock.Available(snsEvent) for an event that does not hold exactly one record
AvailableRefused(c) ==
    /\ pc[c] = "idle"
    /\ \E snsEvent \in {e \in Events : Len(e) # 1} :
          /\ ncalls' = ncalls + 1
          /\ hist' = [hist EXCEPT ![c] =
                        [NoHist EXCEPT !.no = ncalls + 1, !.records = Len(snsEvent)]]
          /\ frame' = [frame EXCEPT ![c] = NoFrame]
          /\ result' = [result EXCEPT ![c] =
                          [ok |-> FALSE, err |-> CardinalityError(Len(snsEvent))]]
    /\ UNCHANGED <<now, table, lock, pc, wins, built, hashed, otherVars>>

\* lock.Available(snsEvent) for an event of one record: hash, then AvailableById
Available(c) ==
    /\ pc[c] = "idle"
    /\ \E snsEvent \in {e \in Events : Len(e) = 1}, sessionOk \in BOOLEAN :
          Enter(c, messageHash(lock[c], snsEvent), sessionOk)

\* putItemInput, second half: current() reads the clock; the input is built
ReadCurrent(c) ==
    /\ pc[c] = "current"
    /\ frame' = [frame EXCEPT ![c].input =
                    putItemInput(lock[c], frame[c].id, frame[c].tExpires, now),
                                ![c].attempts = 1]
    /\ hist' = [hist EXCEPT ![c].tCurrent = now]
    /\ pc' = [pc EXCEPT ![c] = "put"]
    /\ UNCHANGED <<now, table, lock, result, wins, ncalls, built, hashed, otherVars>>

\* the loop keeping its backoff in the lock: RetryWait doubled at each sleep
PutItemBackingOff(c, outcome) ==
    /\ pc[c] = "put"
    /\ LET f == frame[c]
           n == f.attempts
           item == table[f.input.TableName][f.input.Item.id]
           err == PutItemError(table, f.input, outcome, n)
           after == TableAfter(table, f.input, outcome)
       IN /\ table' = after
          /\ hist' = [hist EXCEPT
                        ![c].writes = @ + 1,
                        ![c].sleeps = IF Sleeps(err) THEN @ + 1 ELSE @,
                        ![c].slept = IF Sleeps(err) THEN @ + SleepMs(lock[c]) ELSE @,
                        ![c].faults = IF outcome = "answered" THEN @ ELSE @ + 1,
                        ![c].answered = outcome = "answered",
                        ![c].seen = IF outcome = "answered" THEN item ELSE @,
                        ![c].applied = @ \/ after # table,
                        ![c].acked = @ \/ err = Nil,
                        ![c].responses = Append(@, err)]
          /\ IF Retries(err, n)
             THEN /\ frame' = [frame EXCEPT ![c].attempts = n + 1, ![c].err = err]
                  /\ UNCHANGED <<pc, result, wins>>
             ELSE /\ frame' = [frame EXCEPT ![c].err = err]
                  /\ pc' = [pc EXCEPT ![c] = "idle"]
                  /\ result' = [result EXCEPT ![c] = Classify(err, f.id, lock[c])]
                  /\ wins' = IF Classify(err, f.id, lock[c]).ok
                             THEN Append(wins, [no |-> hist[c].no,
                                                input |-> f.input,
                                                ttl |-> lock[c].TTL,
                                                tExpires |-> f.tExpires,
                                                tCurrent |-> hist[c].tCurrent,
                                                attempts |-> n,
                                                at |-> now])
                             ELSE wins
    /\ lock' = IF Sleeps(PutItemError(table, frame[c].input, outcome, frame[c].attempts))
               THEN [lock EXCEPT ![c].RetryWait = @ * 2]
               ELSE lock
    /\ UNCHANGED <<now, ncalls, built, hashed, otherVars>>

\* the loop building its request anew, from the clock, before every retry
PutItemRebuilding(c, outcome) ==
    /\ pc[c] = "put"
    /\ LET f == frame[c]
           n == f.attempts
           item == table[f.input.TableName][f.input.Item.id]
           err == PutItemError(table, f.input, outcome, n)
           after == TableAfter(table, f.input, outcome)
       IN /\ table' = after
          /\ hist' = [hist EXCEPT
                        ![c].writes = @ + 1,
                        ![c].sleeps = IF Sleeps(err) THEN @ + 1 ELSE @,
                        ![c].slept = IF Sleeps(err) THEN @ + SleepMs(lock[c]) ELSE @,
                        ![c].faults = IF outcome = "answered" THEN @ ELSE @ + 1,
                        ![c].answered = outcome = "answered",
                        ![c].seen = IF outcome = "answered" THEN item ELSE @,
                        ![c].applied = @ \/ after # table,
                        ![c].acked = @ \/ err = Nil,
                        ![c].responses = Append(@, err)]
          /\ IF Retries(err, n)
             THEN /\ frame' = [frame EXCEPT ![c].attempts = n + 1, ![c].err = err,
                                        ![c].input = putItemInput(lock[c], f.id, now, now)]
                  /\ UNCHANGED <<pc, result, wins>>
             ELSE /\ frame' = [frame EXCEPT ![c].err = err]
                  /\ pc' = [pc EXCEPT ![c] = "idle"]
                  /\ result' = [result EXCEPT ![c] = Classify(err, f.id, lock[c])]
                  /\ wins' = IF Classify(err, f.id, lock[c]).ok
                             THEN Append(wins, [no |-> hist[c].no,
                                                input |-> f.input,
                                                ttl |-> lock[c].TTL,
                                                tExpires |-> f.tExpires,
                                                tCurrent |-> hist[c].tCurrent,
                                                attempts |-> n,
                                                at |-> now])
                             ELSE wins
    /\ UNCHANGED <<now, lock, ncalls, built, hashed, otherVars>>

\* one turn of the loop: svc.PutItem(input) and what the loop does with its
\* error; when the loop ends, the return statements after it
PutItem(c, outcome) ==
    /\ pc[c] = "put"
    /\ LET f == frame[c]
           n == f.attempts
           item == table[f.input.TableName][f.input.Item.id]
           err == PutItemError(table, f.input, outcome, n)
           after == TableAfter(table, f.input, outcome)
       IN /\ table' = after
          /\ hist' = [hist EXCEPT
                        ![c].writes = @ + 1,
                        ![c].sleeps = IF Sleeps(err) THEN @ + 1 ELSE @,
                        ![c].slept = IF Sleeps(err) THEN @ + SleepMs(lock[c]) ELSE @,
                        ![c].faults = IF outcome = "answered" THEN @ ELSE @ + 1,
                        ![c].answered = outcome = "answered",
                        ![c].seen = IF outcome = "answered" THEN item ELSE @,
                        ![c].applied = @ \/ after # table,
                        ![c].acked = @ \/ err = Nil,
                        ![c].responses = Append(@, err)]
          /\ IF Retries(err, n)
             THEN /\ frame' = [frame EXCEPT ![c].attempts = n + 1, ![c].err = err]
                  /\ UNCHANGED <<pc, result, wins>>
             ELSE /\ frame' = [frame EXCEPT ![c].err = err]
                  /\ pc' = [pc EXCEPT ![c] = "idle"]
                  /\ result' = [result EXCEPT ![c] = Classify(err, f.id, lock[c])]
                  /\ wins' = IF Classify(err, f.id, lock[c]).ok
                             THEN Append(wins, [no |-> hist[c].no,
                                                input |-> f.input,
                                                ttl |-> lock[c].TTL,
                                                tExpires |-> f.tExpires,
                                                tCurrent |-> hist[c].tCurrent,
                                                attempts |-> n,
                                                at |-> now])
                             ELSE wins
    /\ UNCHANGED <<now, lock, ncalls, built, hashed, otherVars>>

\* a second passes on the shared clock
Tick ==
    /\ now' = now + 1
    /\ UNCHANGED <<table, lock, pc, frame, result, hist, wins, ncalls, built, hashed, otherVars>>

\* a call under concurrency meets at most MaxFaults transport faults
WithinFaults(c, outcome) == outcome = "answered" \/ hist[c].faults < MaxFaults

\* the caller has made no call yet
Fresh(c) == hist[c].no = 0

Next ==
    \/ \E c \in Callers : Fresh(c) /\ AvailableById(c)
    \/ \E c \in Callers : Fresh(c) /\ AvailableRefused(c)
    \/ \E c \in Callers : Fresh(c) /\ Available(c)
    \/ \E c \in Callers : ReadCurrent(c)
    \/ \E c \in Callers, outcome \in Outcomes :
          WithinFaults(c, outcome) /\ PutItem(c, outcome)
    \/ now < T0 + MaxTime /\ Tick

\* concurrent callers, one call each, a call meeting a bounded number of
\* transport faults
Spec == Init /\ [][Next]_vars

\* the caller of the one-caller specification
Solo == "a"

NextSolo ==
    \/ ncalls < SoloCalls /\ AvailableById(Solo)
    \/ ncalls < SoloCalls /\ AvailableRefused(Solo)
    \/ ncalls < SoloCalls /\ Available(Solo)
    \/ ReadCurrent(Solo)
    \/ \E outcome \in Outcomes : PutItem(Solo, outcome)
    \/ now < T0 + MaxTime /\ Tick

\* one caller, its calls one after the other, every run of store outcomes
SpecSolo == Init /\ [][NextSolo]_vars

\* a call that meets no fault: its session is made, its write is answered
Quiet(c) == hist[c].session /\ hist[c].faults = 0

\* the one id the calls without faults are about
QuietId == Sha256Hex("hello")

NextQuiet ==
    \/ \E c \in Callers :
          ncalls < QuietCalls /\ AvailableById(c) /\ Quiet(c)' /\ frame'[c].id = QuietId
    \/ \E c \in Callers : ReadCurrent(c)
    \/ \E c \in Callers : PutItem(c, "answered")
    \/ now < T0 + QuietTime /\ Tick

\* concurrent callers claiming one id, no transport fault
SpecQuiet == Init /\ [][NextQuiet]_vars

NextEvent ==
    \/ \E c \in Callers : ncalls < EventCalls /\ Available(c) /\ Quiet(c)'
    \/ \E c \in Callers : ncalls < EventCalls /\ AvailableRefused(c)
    \/ \E c \in Callers : ReadCurrent(c)
    \/ \E c \in Callers : PutItem(c, "answered")
    \/ now < T0 + MaxTime /\ Tick

\* callers handing events to Available, no transport fault
SpecEvent == Init /\ [][NextEvent]_vars

\* a program calls NewSNSLock(region, table, ttl, retry)
CallNewSNSLock ==
    \E in \in Docs :
        /\ in.wellFormed /\ in.present = Keys
        /\ built' = [by |-> "NewSNSLock", in |-> in, made |-> TRUE,
                      lock |-> NewSNSLock(in.region, in.table, in.ttl, in.retry),
                      err |-> Nil]
        /\ UNCHANGED <<now, table, lock, pc, frame, result, hist, wins, ncalls, hashed, otherVars>>

\* a program calls NewSNSLockFromJson(s)
CallNewSNSLockFromJson ==
    \E s \in Docs :
        /\ built' = [by |-> "NewSNSLockFromJson", in |-> s,
                      made |-> NewSNSLockFromJson(s).made,
                      lock |-> NewSNSLockFromJson(s).lock,
                      err |-> NewSNSLockFromJson(s).err]
        /\ UNCHANGED <<now, table, lock, pc, frame, result, hist, wins, ncalls, hashed, otherVars>>

NextConfig ==
    \/ built = NoBuilt /\ CallNewSNSLock
    \/ built = NoBuilt /\ CallNewSNSLockFromJson

\* one call of either constructor, on every input
SpecConfig == Init /\ [][NextConfig]_vars

\* the lock instances a program holds
Locks == {NewSNSLock("r1", "t1", ttl, 0) : ttl \in 1..MaxTTL}

\* a program takes messageHash of two events, each through a lock instance
MessageHashTwice ==
    \E l \in Locks, k \in Locks, e \in Events, f \in Events :
        /\ Len(e) = 1 /\ Len(f) = 1
        /\ hashed' = <<[lock |-> l, event |-> e, id |-> messageHash(l, e)],
                       [lock |-> k, event |-> f, id |-> messageHash(k, f)]>>
        /\ UNCHANGED <<now, table, lock, pc, frame, result, hist, wins, ncalls, built, otherVars>>

NextHash ==
    \/ ncalls = 0 /\ now = T0 /\ hashed = <<>> /\ MessageHashTwice
    \/ hashed = <<>> /\ NextEvent

\* the fingerprints of two events, or calls of Available without faults
SpecHash == Init /\ [][NextHash]_vars

\* two locks made alike but for their RetryWait: one with the default, one
\* with a value given
InitRetry ==
    /\ now = T0
    /\ table = [t \in TableNames |-> [i \in Ids |-> NoItem]]
    /\ \E ttl \in 1..MaxTTL, retry \in 1..MaxRetryWait :
          lock = [c \in Callers |->
                     NewSNSLock("r1", "t1", ttl, IF c = Solo THEN 0 ELSE retry)]
    /\ pc = [c \in Callers |-> "idle"]
    /\ frame = [c \in Callers |-> NoFrame]
    /\ result = [c \in Callers |-> [ok |-> FALSE, err |-> Nil]]
    /\ hist = [c \in Callers |-> NoHist]
    /\ wins = <<>>
    /\ ncalls = 0
    /\ built = NoBuilt
    /\ hashed = <<>>
    /\ router = NoRouter
    /\ adds = NoAdds
    /\ routed = NoRouted
    /\ unwrapped = NoUnwrapped

NextRetry ==
    \/ \E c \in Callers :
          Fresh(c) /\ AvailableById(c) /\ hist'[c].session /\ frame'[c].id = QuietId
    \/ \E c \in Callers : ReadCurrent(c)
    \/ \E c \in Callers, outcome \in Outcomes :
          WithinFaults(c, outcome) /\ PutItem(c, outcome)
    \/ now < T0 + MaxTime /\ Tick

\* one call of AvailableById for one id through each of two locks that
\* differ in their RetryWait only
SpecRetry == InitRetry /\ [][NextRetry]_vars

(* --------------------------- the router's calls ------------------------ *)

\* the proxy and s3eventutils packages start beside one lock configuration
InitProxy ==
    /\ Init
    /\ lock = [c \in Callers |-> NewSNSLock("r1", "t1", MaxTTL, 0)]

\* the router is still being built: nothing was routed and it has room
Building ==
    /\ routed = NoRouted
    /\ Len(router.Routes) + Len(router.errors) < MaxRoutes

\* the inputs of a direct AddRouteIfNoError: a route or nil, an error or nil
DirectInputs ==
    [route : {NoRoute, NewRoute(GET, "/a", "h1").route},
     err : {Nil, [code |-> "", text |-> <<"some error">>, at |-> 0]}]

\* router.AddRouteIfNoError(route, err)
CallAddRouteIfNoError(built1) ==
    /\ Building
    /\ router' = AddRouteIfNoError(router, built1)
    /\ adds' = [adds EXCEPT !.calls = @ + 1,
                            !.failed = IF built1.err # Nil THEN @ + 1 ELSE @]
    /\ UNCHANGED <<lockVars, routed, unwrapped>>

\* router.AddRoute(route), called directly
CallAddRoute ==
    /\ Building
    /\ router' = AddRoute(router, NewRoute(GET, "/a", "h1").route)
    /\ adds' = [adds EXCEPT !.direct = @ + 1]
    /\ UNCHANGED <<lockVars, routed, unwrapped>>

\* router.AddBuildError(err), called directly
CallAddBuildError ==
    /\ Building
    /\ router' = AddBuildError(router, [code |-> "", text |-> <<"some error">>, at |-> 0])
    /\ adds' = [adds EXCEPT !.direct = @ + 1, !.failed = @ + 1]
    /\ UNCHANGED <<lockVars, routed, unwrapped>>

\* router.GET(match, handler)
CallGET ==
    \E match \in Patterns, handler \in RouteHandlers :
        CallAddRouteIfNoError(NewRoute(GET, match, handler))

\* router.HEAD(match, handler)
CallHEAD ==
    \E match \in Patterns, handler \in RouteHandlers :
        CallAddRouteIfNoError(NewRoute(HEAD, match, handler))

\* router.POST(match, handler)
CallPOST ==
    \E match \in Patterns, handler \in RouteHandlers :
        CallAddRouteIfNoError(NewRoute(POST, match, handler))

\* router.PUT(match, handler)
CallPUT ==
    \E match \in Patterns, handler \in RouteHandlers :
        CallAddRouteIfNoError(NewRoute(PUT, match, handler))

\* router.DELETE(match, handler)
CallDELETE ==
    \E match \in Patterns, handler \in RouteHandlers :
        CallAddRouteIfNoError(NewRoute(DELETE, match, handler))

\* router.CONNECT(match, handler)
CallCONNECT ==
    \E match \in Patterns, handler \in RouteHandlers :
        CallAddRouteIfNoError(NewRoute(CONNECT, match, handler))

\* router.OPTIONS(match, handler)
CallOPTIONS ==
    \E match \in Patterns, handler \in RouteHandlers :
        CallAddRouteIfNoError(NewRoute(OPTIONS, match, handler))

\* router.TRACE(match, handler)
CallTRACE ==
    \E match \in Patterns, handler \in RouteHandlers :
        CallAddRouteIfNoError(NewRoute(TRACE, match, handler))

\* router.PATCH(match, handler)
CallPATCH ==
    \E match \in Patterns, handler \in RouteHandlers :
        CallAddRouteIfNoError(NewRoute(PATCH, match, handler))

\* router.AddCatchAllHandler(handler)
CallAddCatchAllHandler ==
    \E handler \in CatchAllHandlers :
        /\ routed = NoRouted
        /\ router' = [router EXCEPT !.CatchAll = handler]
        /\ UNCHANGED <<lockVars, adds, routed, unwrapped>>

\* router.AddErrorHandler(handler)
CallAddErrorHandler ==
    \E handler \in ErrorHandlers :
        /\ routed = NoRouted
        /\ router' = [router EXCEPT !.CatchError = handler]
        /\ UNCHANGED <<lockVars, adds, routed, unwrapped>>

\* router.BuildErrors() on the router as built so far
CallBuildErrors ==
    /\ routed = NoRouted
    /\ routed' = [NoRouted EXCEPT !.op = "BuildErrors", !.err = BuildErrors(router)]
    /\ UNCHANGED <<lockVars, router, adds, unwrapped>>

\* the building of a router through every method that adds a route or an error
NextBuild ==
    \/ \E built1 \in DirectInputs : CallAddRouteIfNoError(built1)
    \/ CallGET
    \/ CallHEAD
    \/ CallPOST
    \/ CallPUT
    \/ CallDELETE
    \/ CallCONNECT
    \/ CallOPTIONS
    \/ CallTRACE
    \/ CallPATCH
    \/ CallAddRoute
    \/ CallAddBuildError
    \/ CallBuildErrors

SpecBuild == InitProxy /\ [][NextBuild]_vars

\* a request of method and path, with a form body when posted
Request(method, path, body) ==
    [Method |-> method, RawPath |-> path, PathParameters |-> EmptyMap,
     QueryStringParameters |-> EmptyMap,
     ContentType |-> IF method = "POST" THEN "application/x-www-form-urlencoded" ELSE "",
     Body |-> body, IsBase64Encoded |-> FALSE]

\* the requests handed to router.Route
RouteRequests ==
    {Request("GET", path, "") : path \in Paths}
        \cup {Request("POST", path, body) : path \in Paths, body \in {"id=1", "id=1&x"}}

\* router.Route(ctx, request)
CallRoute ==
    \E request \in RouteRequests :
        /\ routed.op \in {"", "Route"}
        /\ LET r == Route(router, request) IN
           routed' = [NoRouted EXCEPT !.op = "Route", !.request = request,
                                      !.response = r.response, !.err = r.err,
                                      !.ran = r.ran, !.panic = r.panic]
        /\ UNCHANGED <<lockVars, router, adds, unwrapped>>

\* a router built of GET and POST routes and the two handlers, then one request
NextRoute ==
    \/ CallGET
    \/ CallPOST
    \/ CallAddCatchAllHandler
    \/ CallAddErrorHandler
    \/ CallRoute

SpecRoute == InitProxy /\ [][NextRoute]_vars

\* the routes Context and Follow are called on
FollowRoutes ==
    {NewRoute(method, pattern, handler).route :
        method \in {POST}, pattern \in {p \in Patterns : Compiles(p)},
        handler \in RouteHandlers}

\* the parameters a request carries in its query string
QueryMaps == {EmptyMap, [k \in {"id"} |-> "query"], [k \in {"q"} |-> "query"]}

\* the requests handed to Context and Follow
FollowRequests ==
    [Method : {"GET", "POST"},
     RawPath : {"/7"},
     PathParameters : {EmptyMap, [k \in {"id"} |-> "path"]},
     QueryStringParameters : QueryMaps,
     ContentType : {"application/x-www-form-urlencoded", "application/json"},
     Body : Bodies,
     IsBase64Encoded : BOOLEAN]

\* the match groups handed to Context and Follow
GroupLists == {<<>>, <<"/7">>, <<"/7", "7">>, <<"/7", "">>}

\* route.Context(ctx, request, groups)
CallContext ==
    \E route \in FollowRoutes, request \in FollowRequests, groups \in GroupLists :
        /\ routed = NoRouted
        /\ LET c == Context(route, request, groups) IN
           routed' = [NoRouted EXCEPT !.op = "Context", !.route = route,
                                      !.request = request, !.groups = groups,
                                      !.rctx = c.rctx, !.err = c.err, !.panic = c.panic]
        /\ UNCHANGED <<lockVars, router, adds, unwrapped>>

\* route.Follow(ctx, request, groups)
CallFollow ==
    \E route \in FollowRoutes, request \in FollowRequests, groups \in GroupLists :
        /\ routed = NoRouted
        /\ LET f == Follow(route, request, groups) IN
           routed' = [NoRouted EXCEPT !.op = "Follow", !.route = route,
                                      !.request = request, !.groups = groups,
                                      !.response = f.response, !.err = f.err,
                                      !.ran = f.ran, !.panic = f.panic]
        /\ UNCHANGED <<lockVars, router, adds, unwrapped>>

NextFollow ==
    \/ CallContext
    \/ CallFollow

SpecFollow == InitProxy /\ [][NextFollow]_vars

\* the patterns of the routes IsMatch is called on: those of the router, and
\* one with an alternative
MatchPatterns == {p \in Patterns : Compiles(p)} \cup {"/a|/b"}

\* the paths of the requests handed to IsMatch
MatchPaths == Paths \cup {"/7/", "/a//", "/ab"}

\* route.IsMatch(request)
CallIsMatch ==
    \E method \in HttpMethods, pattern \in MatchPatterns,
       asked \in HttpMethods, path \in MatchPaths :
        /\ routed = NoRouted
        /\ LET route == NewRoute(method, pattern, "h1").route
               request == Request(MethodString(asked), path, "")
               m == IsMatch(route, request)
           IN  routed' = [NoRouted EXCEPT !.op = "IsMatch", !.route = route,
                                          !.request = request, !.groups = m.groups,
                                          !.matched = m.matched]
        /\ UNCHANGED <<lockVars, router, adds, unwrapped>>

NextMatch == CallIsMatch

SpecMatch == InitProxy /\ [][NextMatch]_vars

(* ------------------------- the unwrapping's calls ---------------------- *)

\* the records of the SNS events handed to S3EventRecordFromSNSWrapper
S3Wrappers == [SNS : [Message : S3Messages, MessageID : {"id-1"}]]

RECURSIVE SeqsUpTo(_, _)
\* the sequences over set of at most n elements
SeqsUpTo(set, n) ==
    IF n = 0 THEN {<<>>}
    ELSE LET shorter == SeqsUpTo(set, n - 1) IN
         shorter \cup {Append(q, x) : q \in shorter, x \in set}

\* S3EventRecordFromSNSWrapper(snsEvent)
CallS3EventRecordFromSNSWrapper ==
    \E snsEvent \in SeqsUpTo(S3Wrappers, MaxSNSRecords) :
        /\ ~unwrapped.called
        /\ LET r == S3EventRecordFromSNSWrapper(snsEvent) IN
           unwrapped' = [called |-> TRUE, snsEvent |-> snsEvent,
                         record |-> r.record, err |-> r.err]
        /\ UNCHANGED <<lockVars, router, adds, routed>>

NextUnwrap == CallS3EventRecordFromSNSWrapper

SpecUnwrap == InitProxy /\ [][NextUnwrap]_vars

(* ------------------------------ claims -------------------------------- *)

TrueNil == [ok |-> TRUE, err |-> Nil]

FalseNil == [ok |-> FALSE, err |-> Nil]

\* the caller's latest call has returned
Returned(c) == pc[c] = "idle" /\ hist[c].no > 0

\* the :cur and the expire of the caller's request, as numbers
Cur(c) == NumberValue(frame[c].input.cur)

Exp(c) == NumberValue(frame[c].input.Item.expire)

\* the latest calls of a and b overlapped in time
Concurrent(a, b) == hist[a].no \in hist[b].overlaps \/ hist[b].no \in hist[a].overlaps

\* the latest calls of a and b raced for one key: both met no fault, the
\* store evaluated a's write on no record or on one expired for both, and
\* b's write next, on the record a wrote
Raced(a, b) ==
    /\ a # b /\ Returned(a) /\ Returned(b) /\ Concurrent(a, b)
    /\ Quiet(a) /\ Quiet(b)
    /\ frame[a].id = frame[b].id
    /\ frame[a].input.TableName = frame[b].input.TableName
    /\ \/ hist[a].seen = NoItem
       \/ /\ Cur(a) > NumberValue(hist[a].seen.expire)
          /\ Cur(b) > NumberValue(hist[a].seen.expire)
    /\ hist[b].seen = frame[a].input.Item

\* C1 as stated: of two concurrent calls for one id on one table, with no
\* record or only an expired one present and no store failure, exactly one
\* returns (true, nil) and the other returns (false, nil)
C1_Original ==
    \A a, b \in Callers :
        Raced(a, b) =>
            \/ result[a] = TrueNil /\ result[b] = FalseNil
            \/ result[a] = FalseNil /\ result[b] = TrueNil

\* C1 amended: of two such calls, the one whose write is evaluated first
\* returns (true, nil); the other returns (false, nil) when its :cur reading
\* is not later than the expire the first one wrote, and (true, nil) when
\* its :cur reading is later than that expire
C1_RaceOutcome ==
    \A a, b \in Callers :
        Raced(a, b) =>
            /\ result[a] = TrueNil
            /\ result[b] = IF Cur(b) > Exp(a) THEN TrueNil ELSE FalseNil

\* two calls raced over an expired record and exactly one of them won
C1_Witness ==
    \E a, b \in Callers :
        /\ Raced(a, b)
        /\ hist[a].seen # NoItem
        /\ result[a] = TrueNil
        /\ result[b] = FalseNil

\* the calls i and j of wins claimed one key
SameKey(i, j) ==
    /\ wins[i].input.Item.id = wins[j].input.Item.id
    /\ wins[i].input.TableName = wins[j].input.TableName

WinExpire(i) == NumberValue(wins[i].input.Item.expire)

\* C2: of the calls that returned (true, nil) for one id on one table, made
\* through any lock instances and after any retries, a later one returned
\* only when the shared clock had passed the expire of every earlier one:
\* no call wins while an earlier winner's claim is unexpired
C2_NoTwoWinnersUnexpired ==
    \A i, j \in 1..Len(wins) :
        (i < j /\ SameKey(i, j)) => wins[j].at > WinExpire(i)

\* two calls won the same id, the later one on a retried write
C2_Witness ==
    \E i, j \in 1..Len(wins) :
        /\ i < j /\ SameKey(i, j)
        /\ wins[j].attempts > 1

\* the record the store held for the caller's key when it evaluated the
\* caller's answered write
Seen(c) == hist[c].seen

\* C3: a call that meets no fault and whose write finds no record for its id
\* returns (true, nil); one whose write finds a record it read its clock
\* before the end of (:cur not later than the stored expire) returns
\* (false, nil)
C3_FreshThenRefused ==
    \A c \in Callers :
        (Returned(c) /\ Quiet(c)) =>
            /\ Seen(c) = NoItem => result[c] = TrueNil
            /\ (Seen(c) # NoItem /\ Cur(c) <= NumberValue(Seen(c).expire))
                  => result[c] = FalseNil

\* a first call won a fresh id, and a later call for that id, made before
\* the stored expire had passed, found the winner's record and was refused
C3_Witness ==
    \E c \in Callers, i \in 1..Len(wins) :
        /\ Returned(c) /\ Quiet(c)
        /\ wins[i].no < hist[c].no
        /\ wins[i].attempts = 1
        /\ Seen(c) = wins[i].input.Item
        /\ result[c] = FalseNil

C5_Claim ==
    \A i, j \in 1..Len(wins) :
        (/\ i < j /\ SameKey(i, j)
         /\ wins[i].tExpires = wins[i].tCurrent
         /\ wins[j].tExpires = wins[j].tCurrent)
        => wins[j].tCurrent > wins[i].tCurrent + wins[i].ttl

\* C6: a call whose last write the store answered with
\* ConditionalCheckFailedException returns (false, nil)
C6_ConditionFailedIsFalseNil ==
    \A c \in Callers :
        (Returned(c) /\ frame[c].err.code = ErrCodeConditionalCheckFailedException)
            => result[c] = FalseNil

\* a call returned after the store refused its write, here a retried one
C6_Witness ==
    \E c \in Callers :
        /\ Returned(c)
        /\ frame[c].err = ConditionalCheckFailed(2)
        /\ result[c] = FalseNil

\* an error that is neither ConditionalCheckFailedException nor a
\* connection reset
IsOther(err) ==
    /\ err # Nil
    /\ err.code # ErrCodeConditionalCheckFailedException
    /\ ~IsConnectionReset(err)

\* C7: after a write that the store answered with an error that is neither
\* ConditionalCheckFailedException nor a connection reset, the call makes no
\* further attempt and does not sleep: it returns (false, err) with err not
\* nil, wrapping that error
C7_OtherErrorStops ==
    \A c \in Callers :
        /\ pc[c] = "put" => ~IsOther(frame[c].err)
        /\ (Returned(c) /\ IsOther(frame[c].err)) =>
              /\ result[c].ok = FALSE
              /\ result[c].err # Nil
              /\ result[c].err.cause = frame[c].err
              /\ hist[c].writes = frame[c].err.at
              /\ hist[c].sleeps = hist[c].writes - 1

\* a call returned after its first write failed with such an error
C7_Witness ==
    \E c \in Callers :
        /\ Returned(c)
        /\ frame[c].err = OtherFailure(1)
        /\ hist[c].writes = 1 /\ hist[c].sleeps = 0
        /\ result[c].ok = FALSE /\ result[c].err # Nil

\* C8: a call submits at most 12 writes and has returned once it has
\* submitted 12; a write after the first is submitted only when the write
\* before it failed with a connection reset
C8_AtMostTwelveWrites ==
    \A c \in Callers :
        /\ hist[c].writes <= 12
        /\ hist[c].writes = 12 => pc[c] = "idle"
        /\ pc[c] = "put" =>
              /\ hist[c].writes = frame[c].attempts - 1
              /\ frame[c].attempts > 1 => IsConnectionReset(frame[c].err)

\* a call returned after 12 writes
C8_Witness == \E c \in Callers : Returned(c) /\ hist[c].writes = 12

\* C9: a call whose 12 writes all failed with a connection reset returns
\* (false, err) with err not nil, wrapping the error of the 12th write
C9_ExhaustedIsError ==
    \A c \in Callers :
        (Returned(c) /\ hist[c].writes = 12 /\ IsConnectionReset(frame[c].err)) =>
            /\ result[c].ok = FALSE
            /\ result[c].err # Nil
            /\ result[c].err.cause = ConnectionReset(12)

\* a call returned an error after 12 connection resets
C9_Witness ==
    \E c \in Callers :
        /\ Returned(c)
        /\ hist[c].faults = 12
        /\ frame[c].err = ConnectionReset(12)
        /\ result[c].ok = FALSE /\ result[c].err # Nil

\* C10: what a returned call of AvailableById or Available gave is (true,
\* nil), (false, nil) or (false, err) with err not nil; it gave true only
\* when the store acknowledged one of its writes
C10_ResultShapes ==
    \A c \in Callers :
        Returned(c) =>
            /\ \/ result[c] = TrueNil
               \/ result[c] = FalseNil
               \/ result[c].ok = FALSE /\ result[c].err # Nil
            /\ result[c].ok => hist[c].acked

\* one caller was given (true, nil) after an acknowledged write while the
\* other was given (false, err) by Available for an event of two records
C10_Witness ==
    \E a, b \in Callers :
        /\ Returned(a) /\ result[a] = TrueNil /\ hist[a].acked
        /\ Returned(b) /\ result[b] = [ok |-> FALSE, err |-> CardinalityError(2)]

\* C11: Available called with an event of zero records or of two or more
\* records returns (false, err) with err not nil; it computes no fingerprint,
\* makes no session and submits no write
C11_WrongCardinalityRefused ==
    \A c \in Callers :
        (Returned(c) /\ hist[c].records # 1) =>
            /\ result[c].ok = FALSE
            /\ result[c].err # Nil
            /\ frame[c].id = ""
            /\ ~hist[c].session
            /\ hist[c].writes = 0 /\ ~hist[c].applied

\* Available returned for an event of no record and for one of two records,
\* and the table holds nothing
C11_Witness ==
    \E a, b \in Callers :
        /\ Returned(a) /\ hist[a].records = 0
        /\ result[a] = [ok |-> FALSE, err |-> CardinalityError(0)]
        /\ Returned(b) /\ hist[b].records = 2
        /\ result[b] = [ok |-> FALSE, err |-> CardinalityError(2)]
        /\ \A t \in TableNames, i \in Ids : table[t][i] = NoItem

\* the message whose sha256 the id is
MessageOf(id) == CHOOSE m \in Messages : Sha256Hex(m) = id

\* C12 as stated, for a caller that configures the S3 fingerprint function:
\* Available, handed an event of one record whose message that function
\* fails on, returns (false, err) with err not nil and submits no write
C12_Claim ==
    \A c \in Callers :
        (/\ Returned(c) /\ hist[c].records = 1
         /\ S3HashFunc(MessageOf(frame[c].id)).err # Nil)
        => /\ result[c].ok = FALSE
           /\ result[c].err # Nil
           /\ hist[c].writes = 0

\* C13: a call of AvailableById whose session cannot be made returns at once
\* (false, err), err not nil and wrapping the session's error: it is never
\* under way, builds no input, submits no write, and neither retries nor
\* sleeps
C13_SessionFailureReturnsAtOnce ==
    \A c \in Callers :
        /\ pc[c] # "idle" => hist[c].session
        /\ (Returned(c) /\ hist[c].records = 1 /\ ~hist[c].session) =>
              /\ result[c].ok = FALSE
              /\ result[c].err # Nil
              /\ result[c].err.cause = SessionFailure
              /\ frame[c].input = NoInput /\ frame[c].attempts = 0
              /\ hist[c].writes = 0 /\ hist[c].sleeps = 0 /\ ~hist[c].applied

\* a call returned on a session failure while the other caller's call, begun
\* before it, was still under way
C13_Witness ==
    \E c, d \in Callers :
        /\ Returned(c) /\ hist[c].records = 1 /\ ~hist[c].session
        /\ result[c] = [ok |-> FALSE,
                        err |-> Wrap(SessionFailure, <<"failed getting session">>)]
        /\ d # c /\ pc[d] = "put" /\ hist[d].no < hist[c].no

\* the constructor was given no ttl, or a zero one
NoTTLGiven == "ttl" \notin built.in.present \/ built.in.ttl = 0

\* the constructor was given no retry-wait, or a zero one
NoRetryGiven == "retry-wait" \notin built.in.present \/ built.in.retry = 0

\* C14 as stated: the lock NewSNSLock returns, and the one NewSNSLockFromJson
\* returns with no error, has TTL > 0 and RetryWait > 0; a zero or absent ttl
\* has become 300 and a zero or absent retry-wait 500, whatever the other is
C14_Claim ==
    built.made =>
        /\ built.lock.TTL > 0
        /\ built.lock.RetryWait > 0
        /\ NoTTLGiven => built.lock.TTL = 300
        /\ NoRetryGiven => built.lock.RetryWait = 500

\* the document gives no region, or an empty one
NoRegionGiven == "region" \notin built.in.present \/ built.in.region = ""

\* the document gives no table, or an empty one
NoTableGiven == "table" \notin built.in.present \/ built.in.table = ""

\* C15: NewSNSLockFromJson returns an error and no lock when the document
\* gives no region or an empty one, or no table or an empty one; for a
\* document json.Unmarshal accepts that gives both, not empty, it returns a
\* lock holding them and no error
C15_RegionAndTableRequired ==
    built.by = "NewSNSLockFromJson" =>
        /\ (NoRegionGiven \/ NoTableGiven) => (~built.made /\ built.err # Nil)
        /\ (built.in.wellFormed /\ ~NoRegionGiven /\ ~NoTableGiven) =>
              /\ built.made /\ built.err = Nil
              /\ built.lock.Region = built.in.region
              /\ built.lock.Table = built.in.table

\* a document with a region and no table was refused for its table
C15_Witness ==
    /\ built.by = "NewSNSLockFromJson"
    /\ built.in.wellFormed /\ ~NoRegionGiven /\ "table" \notin built.in.present
    /\ ~built.made /\ built.err = TableRequired

\* the lock and the clock of TestSNSLock_expires and TestSNSLock_current
TestLock == NewSNSLock("r1", "t1", 15, 0)

TestClock == 1257894000

\* C16: when the two clock readings of a call are the same second t, the
\* request putItemInput builds carries the decimal strings of t + TTL as
\* expire and of t as :cur; with t = 1257894000 and TTL = 15, expires()
\* gives "1257894015" and current() gives "1257894000"
C16_ExpiresAndCurrentExact ==
    /\ expires(TestLock, TestClock) = <<"1", "2", "5", "7", "8", "9", "4", "0", "1", "5">>
    /\ current(TestLock, TestClock) = <<"1", "2", "5", "7", "8", "9", "4", "0", "0", "0">>
    /\ \A c \in Callers :
          (pc[c] = "put" /\ frame[c].tExpires = hist[c].tCurrent) =>
              /\ Exp(c) = hist[c].tCurrent + lock[c].TTL
              /\ Cur(c) = hist[c].tCurrent
              /\ frame[c].input.Item.expire # frame[c].input.cur

\* a call read 9 twice with TTL 1: its request carries expire "10", :cur "9"
C16_Witness ==
    \E c \in Callers :
        /\ pc[c] = "put" /\ lock[c].TTL = 1
        /\ frame[c].tExpires = 9 /\ hist[c].tCurrent = 9
        /\ frame[c].input.Item.expire = <<"1", "0">>
        /\ frame[c].input.cur = <<"9">>

\* C17: two events with the same message get the same id from messageHash,
\* whatever their deliveries and whichever lock instances take the hash; and
\* a call of Available for a message, made after a call that won that
\* message's id and finding the winner's record with :cur not later than its
\* expire, returns (false, nil)
C17_SameMessageSameId ==
    /\ hashed # <<>> =>
          (hashed[1].event[1].SNS.Message = hashed[2].event[1].SNS.Message
              => hashed[1].id = hashed[2].id)
    /\ \A c \in Callers, i \in 1..Len(wins) :
          (/\ Returned(c) /\ hist[c].records = 1 /\ hist[c].session
           /\ wins[i].no < hist[c].no
           /\ MessageOf(frame[c].id) = MessageOf(wins[i].input.Item.id)
           /\ Seen(c) = wins[i].input.Item
           /\ Cur(c) <= WinExpire(i))
          => result[c] = FalseNil

\* two deliveries of one message, hashed through two lock instances that
\* differ, got one id
C17_Witness ==
    /\ hashed # <<>>
    /\ hashed[1].event # hashed[2].event
    /\ hashed[1].lock # hashed[2].lock
    /\ hashed[1].event[1].SNS.Message = hashed[2].event[1].SNS.Message
    /\ hashed[1].id = hashed[2].id

\* C18 as stated: the record of an id changes only when the store applies a
\* write whose condition holds, a record is never removed, and a call of
\* AvailableById that returns false, with or without an error, has left the
\* record of its id as it was
C18_Claim ==
    [][/\ table' # table =>
             \E c \in Callers :
                 /\ pc[c] = "put"
                 /\ ConditionHolds(table[frame[c].input.TableName][frame[c].id],
                                   frame[c].input)
                 /\ table' = [table EXCEPT ![frame[c].input.TableName][frame[c].id] =
                                              frame[c].input.Item]
       /\ \A t \in TableNames, i \in Ids :
             table[t][i] # NoItem => table'[t][i] # NoItem
       /\ \A c \in Callers :
             (pc[c] = "put" /\ pc'[c] = "idle" /\ ~result'[c].ok)
                 => ~hist'[c].applied]_vars

\* C19: no step of Available or AvailableById, retries and sleeps included,
\* changes the Region, Table, TTL or RetryWait of any lock
C19_ConfigurationReadOnly == [][lock' = lock]_vars

\* both callers returned, one after a retry and a sleep, and each lock is as
\* NewSNSLock made it
C19_Witness ==
    \E c, d \in Callers :
        /\ c # d /\ Returned(c) /\ Returned(d)
        /\ hist[c].sleeps > 0 /\ hist[d].writes > 0
        /\ lock[c] = NewSNSLock("r1", "t1", lock[c].TTL, 0)
        /\ lock[d] = NewSNSLock("r1", "t1", lock[d].TTL, 0)

\* one sequence of store responses begins the other
SamePrefix(r, q) ==
    \A n \in 1..Len(r) : n <= Len(q) => r[n] = q[n]

\* the returned calls of a and b differ in the RetryWait of their locks only,
\* read the clock alike, and the store answered them alike for as long as
\* both went on
Twins(a, b) ==
    /\ Returned(a) /\ Returned(b)
    /\ lock[a].RetryWait # lock[b].RetryWait
    /\ [lock[a] EXCEPT !.RetryWait = 0] = [lock[b] EXCEPT !.RetryWait = 0]
    /\ frame[a].id = frame[b].id
    /\ frame[a].tExpires = frame[b].tExpires
    /\ hist[a].tCurrent = hist[b].tCurrent
    /\ SamePrefix(hist[a].responses, hist[b].responses)

C24_OneRouteOrOneError ==
    /\ [](Valid(router) <=> adds.failed = 0)
    /\ [](adds.direct = 0 => Len(router.Routes) + Len(router.errors) = adds.calls)
    /\ [][adds'.calls = adds.calls + 1 =>
            \/ /\ Len(router'.Routes) = Len(router.Routes) + 1
               /\ router'.errors = router.errors
            \/ /\ Len(router'.errors) = Len(router.errors) + 1
               /\ router'.Routes = router.Routes]_vars

\* two such calls, one that brought a route and one that brought an error
C24_Witness ==
    /\ adds = [calls |-> 2, direct |-> 0, failed |-> 1]
    /\ Len(router.Routes) = 1
    /\ Len(router.errors) = 1
    /\ ~Valid(router)

\* the routes of the router that match the request of the Route call, by place
Matching == {i \in 1..Len(router.Routes) : IsMatch(router.Routes[i], routed.request).matched}

\* the first of them
FirstMatch == router.Routes[CHOOSE i \in Matching : \A j \in Matching : i <= j]

\* the handlers a Route call executed that belong to a route, or are the
\* CatchAll handler, in the order of their execution
RanOf(kinds) == SelectSeq(routed.ran, LAMBDA e : e.handler \in kinds)

\* the request of the call carries no form, or a form that can be parsed
FormParses == extractParamsFromFormPost(EmptyMap, routed.request).err = Nil

\* C21 as stated: a Route call whose request some route matches executes the
\* handler of the first such route in the order added, and executes no other
\* route's handler and no CatchAll handler
C21_Original ==
    (routed.op = "Route" /\ Matching # {}) =>
        /\ Len(RanOf(RouteHandlers)) = 1
        /\ RanOf(RouteHandlers)[1].route = FirstMatch
        /\ RanOf(RouteHandlers)[1].handler = FirstMatch.Handler
        /\ RanOf(CatchAllHandlers) = <<>>

\* C21 amended: of the routes that match, only the first in the order added is
\* followed: its handler is executed, once, when the request's form can be
\* parsed, and otherwise no route's handler is executed and the call has an
\* error to return or to hand to CatchError; in neither case the handler of
\* another route or the CatchAll handler is executed
C21_FirstMatchOnly ==
    (routed.op = "Route" /\ Matching # {}) =>
        /\ FormParses =>
              /\ Len(RanOf(RouteHandlers)) = 1
              /\ RanOf(RouteHandlers)[1].route = FirstMatch
              /\ RanOf(RouteHandlers)[1].handler = FirstMatch.Handler
        /\ ~FormParses =>
              /\ RanOf(RouteHandlers) = <<>>
              /\ routed.err # Nil \/ RanOf(ErrorHandlers) # <<>>
        /\ RanOf(CatchAllHandlers) = <<>>

\* two routes of different handlers match, a CatchAll handler is set, and the
\* first route's handler was executed
C21_Witness ==
    /\ routed.op = "Route"
    /\ Cardinality(Matching) = 2
    /\ router.Routes[1].Handler # router.Routes[2].Handler
    /\ router.CatchAll # ""
    /\ Len(routed.ran) = 1
    /\ routed.ran[1].route = router.Routes[1]

\* what routing a request that no route matches comes to: the CatchAll
\* handler's result when one is set, and otherwise the error that names the
\* method and the path
Unmatched ==
    IF router.CatchAll # ""
    THEN RunCatchAll(router.CatchAll, routed.request)
    ELSE [response |-> EmptyResponse,
          err |-> [code |-> "",
                   text |-> <<routed.request.Method, routed.request.RawPath, "not found">>,
                   at |-> 0]]

\* C22 as stated: a Route call whose request no route matches returns the
\* CatchAll handler's result when one is set, and otherwise the not found error
\* with no handler executed
C22_Original ==
    (routed.op = "Route" /\ Matching = {}) =>
        /\ routed.response = Unmatched.response
        /\ routed.err = Unmatched.err
        /\ router.CatchAll = "" => routed.ran = <<>>

\* C22 amended: when no route matches, no route's handler is executed and
\* routing comes to the CatchAll handler's result when one is set (executed
\* once) and otherwise to the not found error; Route returns that as it is,
\* except that an error is handed to the CatchError handler when one is set,
\* whose result is returned instead
C22_NoMatch ==
    (routed.op = "Route" /\ Matching = {}) =>
        /\ RanOf(RouteHandlers) = <<>>
        /\ Len(RanOf(CatchAllHandlers)) = IF router.CatchAll # "" THEN 1 ELSE 0
        /\ IF router.CatchError = "" \/ Unmatched.err = Nil
           THEN /\ routed.response = Unmatched.response
                /\ routed.err = Unmatched.err
                /\ RanOf(ErrorHandlers) = <<>>
           ELSE LET h == RunCatchError(router.CatchError, routed.request, Unmatched.err) IN
                /\ routed.response = h.response
                /\ routed.err = h.err
                /\ Len(RanOf(ErrorHandlers)) = 1

\* a router with a route and a CatchAll handler was handed a request that its
\* route does not match, and the CatchAll handler answered
C22_Witness ==
    /\ routed.op = "Route"
    /\ Matching = {}
    /\ Len(router.Routes) > 0
    /\ router.CatchAll = "notFound"
    /\ routed.response.StatusCode = 404
    /\ routed.err = Nil

\* C23: Route calls the CatchError handler exactly when one is set and routing
\* came to an error, and then returns what that handler returns; in every
\* other case it returns the response and the error of routing unchanged, a
\* response that comes together with an error included
C23_CatchErrorOnlyOnError ==
    routed.op = "Route" =>
        LET inner == routeInternal(router, routed.request) IN
        IF router.CatchError # "" /\ inner.err # Nil
        THEN LET h == RunCatchError(router.CatchError, routed.request, inner.err) IN
             /\ Len(RanOf(ErrorHandlers)) = 1
             /\ routed.ran[Len(routed.ran)].handler = router.CatchError
             /\ routed.response = h.response
             /\ routed.err = h.err
        ELSE /\ RanOf(ErrorHandlers) = <<>>
             /\ routed.response = inner.response
             /\ routed.err = inner.err
             /\ routed.ran = inner.ran

\* no CatchError handler is set and the routed handler returned a response
\* together with an error: both were returned
C23_Witness ==
    /\ routed.op = "Route"
    /\ router.CatchError = ""
    /\ Len(routed.ran) = 1
    /\ routed.ran[1].handler = "h2"
    /\ routed.response.StatusCode = 500
    /\ routed.err # Nil

\* what each source supplies to the Context or Follow call: the posted form,
\* the named groups of the route's regex, the query string, the path parameters
FromForm == extractParamsFromFormPost(EmptyMap, routed.request).params

FromRegex == extractParamsFromURIRegex(routed.route, EmptyMap, routed.groups).params

FromQuery == routed.request.QueryStringParameters

FromAwsPath == routed.request.PathParameters

\* C25: the Params of a context hold exactly the names some source supplies,
\* each with the value of the first source that supplies it in the order form
\* POST body, route regex capture, query string, API Gateway path parameters
C25_ParamsPrecedence ==
    (routed.op = "Context" /\ routed.err = Nil /\ ~routed.panic) =>
        /\ DOMAIN routed.rctx.Params =
              DOMAIN FromForm \cup DOMAIN FromRegex \cup DOMAIN FromQuery \cup DOMAIN FromAwsPath
        /\ \A name \in DOMAIN routed.rctx.Params :
              routed.rctx.Params[name] =
                  IF name \in DOMAIN FromForm THEN FromForm[name]
                  ELSE IF name \in DOMAIN FromRegex THEN FromRegex[name]
                  ELSE IF name \in DOMAIN FromQuery THEN FromQuery[name]
                  ELSE FromAwsPath[name]

\* all four sources supply "id", each another value, and the form's is taken;
\* the decoded form is "id=1", the capture "7"
C25_Witness ==
    /\ routed.op = "Context"
    /\ routed.err = Nil
    /\ routed.request.IsBase64Encoded
    /\ FromForm = [k \in {"id"} |-> "1"]
    /\ FromRegex = [k \in {"id"} |-> "7"]
    /\ FromQuery = [k \in {"id"} |-> "query"]
    /\ FromAwsPath = [k \in {"id"} |-> "path"]
    /\ routed.rctx.Params = [k \in {"id"} |-> "1"]

\* C26 as stated: Follow with an empty list of match groups, or with a request
\* whose form cannot be parsed, returns an error and does not call the
\* handler; with a list that is not empty and a request that can be parsed it
\* calls the handler exactly once and returns what the handler returns
C26_Claim ==
    routed.op = "Follow" =>
        /\ ~routed.panic
        /\ IF Len(routed.groups) = 0 \/ ~FormParses
           THEN routed.err # Nil /\ routed.ran = <<>>
           ELSE /\ Len(routed.ran) = 1
                /\ routed.ran[1].handler = routed.route.Handler
                /\ routed.response = RunHandler(routed.route.Handler, NoContext).response
                /\ routed.err = RunHandler(routed.route.Handler, NoContext).err

\* the messages that are an S3 event of exactly one record
OneRecordMessages == {"[A]", "[B]"}

\* C27: S3EventRecordFromSNSWrapper returns a record, and no error, exactly
\* when the SNS event holds one record whose message is an S3 event of one
\* record, and then that record; for every other SNS event it returns an error
\* and no record
C27_OneOfEach ==
    unwrapped.called =>
        IF /\ Len(unwrapped.snsEvent) = 1
           /\ unwrapped.snsEvent[1].SNS.Message \in OneRecordMessages
        THEN /\ unwrapped.err = Nil
             /\ unwrapped.record # NoRecord
             /\ <<unwrapped.record>> = UnmarshalS3Event(unwrapped.snsEvent[1].SNS.Message).Records
        ELSE /\ unwrapped.err # Nil
             /\ unwrapped.record = NoRecord

\* the record of the tests' valid message was returned
C27_Witness ==
    /\ unwrapped.called
    /\ Len(unwrapped.snsEvent) = 1
    /\ unwrapped.err = Nil
    /\ unwrapped.record = S3Record("bktname", "some/file/in/s3.txt")

\* C28: a call that meets no fault and whose write finds a record is refused
\* with (false, nil) when the clock reading of its current() equals the stored
\* expire, and returns true only when that reading is greater than the stored
\* expire
C28_ExpiryStrict ==
    \A c \in Callers :
        (Returned(c) /\ Quiet(c) /\ Seen(c) # NoItem) =>
            /\ hist[c].tCurrent = NumberValue(Seen(c).expire) => result[c] = FalseNil
            /\ result[c].ok => hist[c].tCurrent > NumberValue(Seen(c).expire)

\* a call read its clock at the very second a stored record expires and was
\* refused
C28_Witness ==
    \E c \in Callers :
        /\ Returned(c) /\ Quiet(c)
        /\ Seen(c) # NoItem
        /\ hist[c].tCurrent = NumberValue(Seen(c).expire)
        /\ result[c] = FalseNil

\* the store's responses to the attempts of the caller's latest call, in order
Responses(c) == hist[c].responses

\* the places of the responses that are no connection reset
Decisive(c) == {i \in 1..Len(Responses(c)) : ~IsConnectionReset(Responses(c)[i])}

\* C29: the first response of the store that is no connection reset, coming
\* after fewer than 12 resets, is the last one the call asks for and decides
\* what it returns: (true, nil) for a write that succeeded, (false, nil) for a
\* failed condition, and false with an error holding the cause for any other
\* error
C29_FirstDecisiveResponse ==
    \A c \in Callers :
        (Returned(c) /\ Decisive(c) # {}) =>
            LET k == CHOOSE i \in Decisive(c) : \A j \in Decisive(c) : i <= j
                err == Responses(c)[k]
            IN  /\ k - 1 < MaxAttempts
                /\ Len(Responses(c)) = k
                /\ err = Nil => result[c] = TrueNil
                /\ (err # Nil /\ err.code = ErrCodeConditionalCheckFailedException)
                      => result[c] = FalseNil
                /\ (err # Nil /\ err.code # ErrCodeConditionalCheckFailedException)
                      => /\ ~result[c].ok
                         /\ result[c].err # Nil
                         /\ result[c].err.cause = err

\* eleven connection resets, then a write that succeeded: (true, nil)
C29_Witness ==
    \E c \in Callers :
        /\ Returned(c)
        /\ Len(Responses(c)) = MaxAttempts
        /\ Decisive(c) = {MaxAttempts}
        /\ Responses(c)[MaxAttempts] = Nil
        /\ result[c] = TrueNil

\* C30 as stated: a call sleeps only between two attempts that follow one
\* another: at no time has it slept more often than it has written, and when it
\* returns it has slept once less than it has written, not having slept after
\* its last attempt
C30_Claim ==
    \A c \in Callers :
        /\ hist[c].sleeps <= hist[c].writes
        /\ (Returned(c) /\ hist[c].writes > 0) => hist[c].sleeps = hist[c].writes - 1

\* C31 as stated: a call whose write the store applied returns (true, nil),
\* lost answers and retries included, so that every record in the store is the
\* record of a call that returned (true, nil) or of a call still under way
C31_Claim ==
    /\ \A c \in Callers : (Returned(c) /\ hist[c].applied) => result[c] = TrueNil
    /\ \A t \in TableNames, i \in Ids :
          table[t][i] # NoItem =>
              \/ \E k \in 1..Len(wins) :
                    wins[k].input.TableName = t /\ wins[k].input.Item = table[t][i]
              \/ \E c \in Callers :
                    /\ pc[c] = "put"
                    /\ frame[c].input.TableName = t
                    /\ frame[c].input.Item = table[t][i]

\* C32: the request of a call is built once, before its first attempt: while
\* the call is in its loop no step changes the request, whose :cur and expire
\* stay the ones of the clock readings taken at the start of the call, and a
\* write the store applies stores the item of that request
C32_RequestBuiltOnce ==
    [][\A c \in Callers :
          pc[c] = "put" =>
              /\ frame'[c].input = frame[c].input
              /\ Cur(c) = hist[c].tCurrent
              /\ Exp(c) = frame[c].tExpires + lock[c].TTL
              /\ table' # table =>
                    table'[frame[c].input.TableName][frame[c].id] = frame[c].input.Item]_vars

\* a call is about to make its third attempt, later than the second its
\* request was built in, with the request of its first attempt
C32_Witness ==
    \E c \in Callers :
        /\ pc[c] = "put"
        /\ hist[c].writes = 2
        /\ now > hist[c].tCurrent
        /\ Cur(c) = hist[c].tCurrent

\* C33 as stated: the request of every call has expire = :cur + TTL, whatever
\* the clock does between the reading of expires() and the one of current()
C33_Claim ==
    \A c \in Callers : pc[c] = "put" => Exp(c) = Cur(c) + lock[c].TTL

\* C34: a lock either constructor returns holds the ttl and the retry it was
\* given whenever they are not 0, negative ones included; NewSNSLock returns a
\* lock for every region and table, empty ones included, and stores them as
\* given, where NewSNSLockFromJson returns an error for an empty one
C34_GivenValuesKept ==
    /\ built.made =>
          /\ ~NoTTLGiven => built.lock.TTL = built.in.ttl
          /\ ~NoRetryGiven => built.lock.RetryWait = built.in.retry
    /\ built.by = "NewSNSLock" =>
          /\ built.made /\ built.err = Nil
          /\ built.lock.Region = built.in.region
          /\ built.lock.Table = built.in.table
    /\ (built.by = "NewSNSLockFromJson" /\ (NoRegionGiven \/ NoTableGiven)) => ~built.made

\* NewSNSLock returned a lock for an empty region and an empty table, with the
\* negative ttl and retry it was given
C34_Witness ==
    /\ built.by = "NewSNSLock"
    /\ built.made
    /\ built.in.region = "" /\ built.in.table = ""
    /\ built.lock = [Region |-> "", Table |-> "", TTL |-> -1, RetryWait |-> -1]

\* the paths a pattern matches from their first to their last character
WholePaths(pattern) ==
    CASE pattern = "/a" -> {"/a"}
      [] pattern = "/(?P<id>[0-9]+)" -> {"/7"}
      [] pattern = "/.*" -> MatchPaths
      [] pattern = "/a|/b" -> {"/a", "/b"}

\* a path without its one trailing slash
WithoutSlash(path) ==
    CASE path = "/a/" -> "/a"
      [] path = "/a//" -> "/a/"
      [] path = "/7/" -> "/7"
      [] OTHER -> path

\* C35 as stated: IsMatch returns (false, nil) when the method of the request
\* is not the route's, whatever the path; when it is, IsMatch returns true and
\* a list of groups that is not empty exactly when the route's pattern matches
\* the whole raw path, or the whole of it but one trailing slash, and
\* (false, nil) otherwise
C35_Claim ==
    routed.op = "IsMatch" =>
        IF /\ routed.request.Method = MethodString(routed.route.Method)
           /\ \/ routed.request.RawPath \in WholePaths(routed.route.Regex)
              \/ WithoutSlash(routed.request.RawPath) \in WholePaths(routed.route.Regex)
        THEN routed.matched /\ Len(routed.groups) > 0
        ELSE ~routed.matched /\ routed.groups = <<>>

\* C36: for a request that is no POST, or whose content-type is not
\* application/x-www-form-urlencoded, extractParamsFromFormPost returns no
\* error and leaves the params as the sources before it made them, whatever
\* the body is: the context is built, of the path parameters, the query string
\* and the captures alone
C36_FormOnlyOfFormPost ==
    (/\ routed.op = "Context" /\ ~routed.panic /\ Len(routed.groups) > 0
     /\ \/ routed.request.Method # "POST"
        \/ routed.request.ContentType # "application/x-www-form-urlencoded")
    => /\ routed.err = Nil
       /\ routed.rctx.Params = Overlay(Overlay(FromAwsPath, FromQuery), FromRegex)

\* a GET request with the content-type of a form and a body that is no form:
\* no error, and no param
C36_Witness ==
    /\ routed.op = "Context"
    /\ routed.request.Method = "GET"
    /\ routed.request.ContentType = "application/x-www-form-urlencoded"
    /\ routed.request.Body = "id=1&x"
    /\ Len(routed.groups) > 0
    /\ routed.err = Nil
    /\ routed.rctx.Params = EmptyMap

\* the CatchError handler of the router was called once, with the error e,
\* and the Route call returned what it returned
Caught(e) ==
    /\ Len(RanOf(ErrorHandlers)) = 1
    /\ routed.response = RunCatchError(router.CatchError, routed.request, e).response
    /\ routed.err = RunCatchError(router.CatchError, routed.request, e).err

\* the error of Follow for the request of the call, whose form does not parse
ContextError ==
    Wrap(Wrap(extractParamsFromFormPost(EmptyMap, routed.request).err,
              <<"failed extractParamsFromFormPost">>),
         <<"failed getting context for route", FirstMatch.Regex>>)

\* C37: on a router with a CatchError handler, Route hands that handler the
\* error of every kind routing comes to: the not found error and the error of
\* the CatchAll handler when no route matches, the error of building the
\* context when the form of the request does not parse, and the error the
\* matched route's handler returns
C37_EveryErrorCaught ==
    (routed.op = "Route" /\ router.CatchError # "") =>
        /\ (Matching = {} /\ Unmatched.err # Nil) => Caught(Unmatched.err)
        /\ (Matching # {} /\ ~FormParses) => Caught(ContextError)
        /\ (/\ Matching # {} /\ FormParses
            /\ RunHandler(FirstMatch.Handler, NoContext).err # Nil)
              => Caught(RunHandler(FirstMatch.Handler, NoContext).err)

\* the error of building a context reached the CatchError handler, which
\* answered with its message
C37_Witness ==
    /\ routed.op = "Route"
    /\ router.CatchError = "errorHandler"
    /\ Matching # {} /\ ~FormParses
    /\ routed.response = [StatusCode |-> 500, Body |-> "failed getting context for route"]
    /\ routed.err = Nil

\* the list before is the beginning of the list after
Extends(before, after) ==
    /\ Len(before) <= Len(after)
    /\ SubSeq(after, 1, Len(before)) = before

\* C38: a call of Route leaves the routes, the build errors, the CatchAll and
\* the CatchError handler of the router as they were, however many calls are
\* made; and whatever adds a route or a build error appends it, keeping the
\* entries recorded before and their order
C38_RouteKeepsRouter ==
    [][/\ (routed'.op = "Route" /\ routed' # routed) => router' = router
       /\ Extends(router.Routes, router'.Routes)
       /\ Extends(router.errors, router'.errors)]_vars

\* a request was routed on a router that holds a route and a build error
C38_Witness ==
    /\ routed.op = "Route"
    /\ Len(router.Routes) > 0
    /\ Len(router.errors) > 0
    /\ router.CatchError # ""

RECURSIVE Causes(_, _)
\* the error k causes below err
Causes(err, k) == IF k = 0 THEN err ELSE Causes(err.cause, k - 1)

RECURSIVE Joined(_)
\* the texts of a list of errors, one after the other
Joined(errs) == IF errs = <<>> THEN <<>> ELSE Head(errs).text \o Joined(Tail(errs))

\* C39: BuildErrors returns an error, also for a router that is valid; its
\* text is the texts of the build errors from the last recorded to the first,
\* then "failed building router"; under one cause for each build error lies
\* the error of that text alone, and the k-th cause carries what is left of
\* the text from the k-th latest build error on
C39_LatestOutermost ==
    routed.op = "BuildErrors" =>
        LET n == Len(router.errors) IN
        /\ routed.err # Nil
        /\ routed.err.text = Joined(Reverse(router.errors)) \o <<"failed building router">>
        /\ Causes(routed.err, n) =
               [code |-> "", text |-> <<"failed building router">>, at |-> 0]
        /\ \A k \in 0..n :
               Causes(routed.err, k).text =
                   Joined(Reverse(SubSeq(router.errors, 1, n - k)))
                       \o <<"failed building router">>

\* two build errors of different texts were recorded, a pattern that does not
\* compile after an error given directly, and the pattern's stands first
C39_Witness ==
    /\ routed.op = "BuildErrors"
    /\ Len(router.errors) >= 2
    /\ router.errors[1].text = <<"some error">>
    /\ router.errors[2].text[1] = "failed compiling regex pattern"
    /\ routed.err.text[1] = "failed compiling regex pattern"
    /\ routed.err.cause.text[1] = "some error"

\* a valid router, with no build error recorded, was asked for its build errors
C39_ValidReached ==
    /\ routed.op = "BuildErrors"
    /\ Valid(router)
    /\ routed.err.text = <<"failed building router">>

====
